---- MODULE Spec2Model ----
(***************************************************************************)
(* Model of the polyglot-helloworld generator (scaffold.cpp) and of the    *)
(* batch executor (run_all.sh).                                            *)
(*                                                                         *)
(* Strings are sequences of one-character strings, so that every text      *)
(* transformation of the generator is computed character by character as   *)
(* the C++ code computes it.  The three bytes of a UTF-8 byte-order mark   *)
(* are the pseudo-characters "EF", "BB", "BF".                             *)
(***************************************************************************)
EXTENDS Naturals, Sequences, FiniteSets, TLC

VARIABLES
  input,    \* the rows, layout and column order the manifest was written from
  manifest, \* generator: the lines of the manifest file (std::getline)
  force,    \* generator: --force was given
  hdr,      \* generator: has_header and the column index h
  lineNo,   \* generator: the next line of the manifest to read
  pc,       \* generator: "start", "loop" or "exit" ("off": not run)
  status,   \* generator: "running", or the exit status "exit0", "exit1",
            \* "exit2"
  tree,     \* the output tree, with the log of the current run
  runNo,    \* how many times the generator was invoked on this manifest
  prev,     \* the tree the current invocation started from
  str,      \* text unit: a hello field as written, or a run command; or the
            \* fields of a row that a step of process_line reads
  strOut,   \* text unit: the source file or the recipe generated from str; or
            \* what the step of process_line computed
  strOp,    \* text unit: "field" or "command" before, "source" or "recipe"
            \* after the generator ran; "fields" before and "resolved" after
            \* the file name of a row is determined; "row" before and
            \* "fixed" after the fixups of a row ("off": not run)
  entries,  \* executor: what "$LANG_DIR"/* enumerates, in glob order
  filters,  \* executor: FILTERS, the name arguments
  verbose,  \* executor: VERBOSE
  langs,    \* executor: the list of included entries
  idx,      \* executor: the loop index
  passes,   \* executor: the Pass list
  fails,    \* executor: the Fail list
  skips,    \* executor: the Skip list
  invoked,  \* executor: the launchers run so far, with their exit status
  running,  \* executor: the launchers started and not yet exited
  printed,  \* executor: the result lines printed so far
  xpc,      \* executor: "list", "loop" or "done" ("off": not run)
  xstatus,  \* executor: "running", or its exit status "exit0", "exit1"
  script,   \* launcher: the lines of the generated run.sh that bash reads
  world,    \* launcher: the slug of the row, POLYGLOT_PLATFORM in the
            \* environment, the exit status docker build and docker run give
  sh        \* launcher: the shell running run.sh: next line, errexit,
            \* variables, $?, the docker commands run so far, exit status

genVars == <<input, manifest, force, hdr, lineNo, pc, status, tree, runNo,
             prev>>
strVars == <<str, strOut, strOp>>
execVars == <<entries, filters, verbose, langs, idx, passes, fails, skips,
              invoked, running, printed, xpc, xstatus>>
shVars == <<script, world, sh>>
vars == <<genVars, strVars, execVars, shVars>>

(***************************************************************************)
(* Bounds of the model.                                                    *)
(***************************************************************************)
MaxStrLen == 3
MaxRows == 2
MaxRuns == 2
MaxEntries == 3
MaxTokens == 2

(***************************************************************************)
(* Characters.                                                             *)
(***************************************************************************)
BSL == "\\"
DQ  == "\""
SQ  == "'"
TAB == "\t"
NL  == "\n"
CR  == "\r"
FF  == "\f"

\* std::isspace in the "C" locale (the vertical tab is not in any alphabet used)
isspace(c) == c \in {" ", TAB, NL, CR, FF}

\* the characters below 0x20 that occur in the alphabets, with their codes
ControlCode == (TAB :> 9) @@ (NL :> 10) @@ (FF :> 12) @@ (CR :> 13)

UpperLetters == <<"A","B","C","D","E","F","G","H","I","J","K","L","M",
                  "N","O","P","Q","R","S","T","U","V","W","X","Y","Z">>
LowerLetters == <<"a","b","c","d","e","f","g","h","i","j","k","l","m",
                  "n","o","p","q","r","s","t","u","v","w","x","y","z">>

tolower(c) ==
  IF \E i \in 1..Len(UpperLetters) : UpperLetters[i] = c
  THEN LowerLetters[CHOOSE i \in 1..Len(UpperLetters) : UpperLetters[i] = c]
  ELSE c

(***************************************************************************)
(* Generic sequence helpers (std::string primitives).                      *)
(***************************************************************************)
\* the only element of a one-element set: { F(x) : x \in {e} } evaluates e once
Only(S) == CHOOSE x \in S : TRUE

RECURSIVE Concat(_)
Concat(ss) == IF ss = <<>> THEN <<>> ELSE Head(ss) \o Concat(Tail(ss))

\* s.substr(pos) with pos counted from 0; the caller guarantees pos <= size
substr_from(s, pos) == SubSeq(s, pos + 1, Len(s))

\* s.find(needle, from): the least 0-based index >= from of an occurrence,
\* or npos, rendered as Len(s) + 1
npos(s) == Len(s) + 1
occurs_at(s, needle, i) ==
  /\ i + Len(needle) <= Len(s)
  /\ SubSeq(s, i + 1, i + Len(needle)) = needle
find_from(s, needle, from) ==
  IF \E i \in from..Len(s) : occurs_at(s, needle, i)
  THEN CHOOSE i \in from..Len(s) :
         /\ occurs_at(s, needle, i)
         /\ \A j \in from..(i - 1) : ~occurs_at(s, needle, j)
  ELSE npos(s)

\* s.rfind(prefix, 0) == 0
starts_with(s, prefix) == occurs_at(s, prefix, 0)

\* ends_with, scaffold.cpp
ends_with(s, suf) ==
  /\ Len(s) >= Len(suf)
  /\ SubSeq(s, Len(s) - Len(suf) + 1, Len(s)) = suf

(***************************************************************************)
(* split_tabs, trim, lower.                                                *)
(***************************************************************************)
RECURSIVE split_tabs_loop(_, _, _, _)
split_tabs_loop(s, i, cur, out) ==
  IF i > Len(s) THEN Append(out, cur)
  ELSE IF s[i] = TAB THEN split_tabs_loop(s, i + 1, <<>>, Append(out, cur))
  ELSE split_tabs_loop(s, i + 1, Append(cur, s[i]), out)

split_tabs(s) == split_tabs_loop(s, 1, <<>>, <<>>)

trim(s) ==
  IF \A i \in 1..Len(s) : isspace(s[i]) THEN <<>>
  ELSE LET first == CHOOSE i \in 1..Len(s) :
                      ~isspace(s[i]) /\ \A j \in 1..(i - 1) : isspace(s[j])
           last  == CHOOSE i \in 1..Len(s) :
                      ~isspace(s[i]) /\ \A j \in (i + 1)..Len(s) : isspace(s[j])
       IN  SubSeq(s, first, last)

lower(s) == [i \in 1..Len(s) |-> tolower(s[i])]

(***************************************************************************)
(* unescape: one left-to-right pass; a backslash followed by one of        *)
(* n t r \ " ' is replaced, anything else is copied.                       *)
(***************************************************************************)
EscapeOf == ("n" :> NL) @@ ("t" :> TAB) @@ ("r" :> CR) @@
            (BSL :> BSL) @@ (DQ :> DQ) @@ (SQ :> SQ)

\* the revision of unescape kept under tools/: knows only \n, \t and \\
LegacyEscapeOf == ("n" :> NL) @@ ("t" :> TAB) @@ (BSL :> BSL)

RECURSIVE unescape_loop(_, _, _)
unescape_loop(s, i, table) ==
  IF i > Len(s) THEN <<>>
  ELSE IF s[i] = BSL /\ i + 1 <= Len(s) /\ s[i + 1] \in DOMAIN table
       THEN <<table[s[i + 1]]>> \o unescape_loop(s, i + 2, table)
       ELSE <<s[i]>> \o unescape_loop(s, i + 1, table)

unescape_legacy(s) == unescape_loop(s, 1, LegacyEscapeOf)

unescape(s) == unescape_loop(s, 1, EscapeOf)

BOM == <<"EF", "BB", "BF">>

strip_utf8_bom(s) ==
  IF Len(s) >= 3 /\ SubSeq(s, 1, 3) = BOM THEN SubSeq(s, 4, Len(s)) ELSE s

ends_with_nl(s) == s # <<>> /\ s[Len(s)] = NL

(***************************************************************************)
(* json_escape.                                                            *)
(***************************************************************************)
HexDigits == <<"0","1","2","3","4","5","6","7","8","9","A","B","C","D","E","F">>

\* std::hex << std::uppercase << std::setw(4) << std::setfill('0') << (int)c
hex4(n) == [k \in 1..4 |->
             HexDigits[((n \div (IF k = 1 THEN 4096 ELSE IF k = 2 THEN 256
                                 ELSE IF k = 3 THEN 16 ELSE 1)) % 16) + 1]]

json_escape_char_noquote(c) ==
  IF c = BSL THEN <<BSL, BSL>>
  ELSE IF c = NL THEN <<BSL, "n">>
  ELSE IF c = CR THEN <<BSL, "r">>
  ELSE IF c = TAB THEN <<BSL, "t">>
  ELSE IF c \in DOMAIN ControlCode THEN <<BSL, "u">> \o hex4(ControlCode[c])
  ELSE <<c>>

json_escape_char(c) ==
  IF c = BSL THEN <<BSL, BSL>>
  ELSE IF c = DQ THEN <<BSL, DQ>>
  ELSE IF c = NL THEN <<BSL, "n">>
  ELSE IF c = CR THEN <<BSL, "r">>
  ELSE IF c = TAB THEN <<BSL, "t">>
  ELSE IF c \in DOMAIN ControlCode THEN <<BSL, "u">> \o hex4(ControlCode[c])
  ELSE <<c>>

json_escape(s) == Concat([i \in 1..Len(s) |-> json_escape_char(s[i])])


(***************************************************************************)
(* Filename helpers: file_ext, strip_trailing_punct, shellish_split,       *)
(* normalize_filename, find_last_file_ref.                                 *)
(***************************************************************************)
\* s.substr(s.rfind('.')), or "" when s holds no '.'
file_ext(s) ==
  IF \E i \in 1..Len(s) : s[i] = "."
  THEN LET pos == CHOOSE i \in 1..Len(s) :
                    s[i] = "." /\ \A j \in (i + 1)..Len(s) : s[j] # "."
       IN  SubSeq(s, pos, Len(s))
  ELSE <<>>

RECURSIVE strip_trailing_punct(_)
strip_trailing_punct(t) ==
  IF t # <<>> /\ t[Len(t)] \in {";", ",", ")", "]", CR, NL}
  THEN strip_trailing_punct(SubSeq(t, 1, Len(t) - 1))
  ELSE t

RECURSIVE shellish_loop(_, _, _, _, _, _)
shellish_loop(s, i, cur, out, in_single, in_double) ==
  IF i > Len(s) THEN (IF cur # <<>> THEN Append(out, cur) ELSE out)
  ELSE IF s[i] = SQ /\ ~in_double
       THEN shellish_loop(s, i + 1, cur, out, ~in_single, in_double)
  ELSE IF s[i] = DQ /\ ~in_single
       THEN shellish_loop(s, i + 1, cur, out, in_single, ~in_double)
  ELSE IF ~in_single /\ ~in_double /\ isspace(s[i])
       THEN shellish_loop(s, i + 1, <<>>,
                          IF cur # <<>> THEN Append(out, cur) ELSE out,
                          in_single, in_double)
  ELSE shellish_loop(s, i + 1, Append(cur, s[i]), out, in_single, in_double)

shellish_split(s) == shellish_loop(s, 1, <<>>, <<>>, FALSE, FALSE)

\* fs::path(tok).filename(): what follows the last '/' (nothing when tok ends
\* with '/').  The leaf never starts with "./", so the second statement of the
\* C++ function changes nothing.
path_filename(tok) ==
  IF \E i \in 1..Len(tok) : tok[i] = "/"
  THEN LET pos == CHOOSE i \in 1..Len(tok) :
                    tok[i] = "/" /\ \A j \in (i + 1)..Len(tok) : tok[j] # "/"
       IN  SubSeq(tok, pos + 1, Len(tok))
  ELSE tok

normalize_filename(tok) ==
  LET leaf == path_filename(tok)
  IN  IF starts_with(leaf, <<".", "/">>) THEN substr_from(leaf, 2) ELSE leaf

RECURSIVE last_ref_loop(_, _, _, _)
last_ref_loop(toks, i, ext, last) ==
  IF i > Len(toks) THEN last
  ELSE LET tok == normalize_filename(strip_trailing_punct(toks[i]))
       IN  last_ref_loop(toks, i + 1, ext,
                         IF ends_with(tok, ext) THEN tok ELSE last)

\* a scan that takes the last token whatever its extension
find_last_token(cmd, ext) ==
  IF cmd = <<>> \/ ext = <<>> THEN <<>>
  ELSE Only({last_ref_loop(toks, 1, <<>>, <<>>) : toks \in {shellish_split(cmd)}})

find_last_file_ref(cmd, ext) ==
  IF cmd = <<>> \/ ext = <<>> THEN <<>>
  ELSE Only({last_ref_loop(toks, 1, ext, <<>>) : toks \in {shellish_split(cmd)}})

\* a resolution that looks at run_cmd before build_cmd
effective_file_run_first(base, ext, build_cmd, run_cmd) ==
  LET build_ref == normalize_filename(find_last_file_ref(build_cmd, ext))
      run_ref   == normalize_filename(find_last_file_ref(run_cmd, ext))
  IN  IF run_ref # <<>> THEN run_ref
      ELSE IF build_ref # <<>> THEN build_ref
      ELSE base

\* process_line, "Determine filename to generate/copy"
effective_file_from(base, ext, build_cmd, run_cmd) ==
  LET build_ref == normalize_filename(find_last_file_ref(build_cmd, ext))
      run_ref   == normalize_filename(find_last_file_ref(run_cmd, ext))
  IN  IF build_ref # <<>> THEN build_ref
      ELSE IF run_ref # <<>> THEN run_ref
      ELSE base

effective_file_of(file, build_cmd, run_cmd) ==
  Only({effective_file_from(base, file_ext(base), build_cmd, run_cmd) :
          base \in {normalize_filename(file)}})

(***************************************************************************)
(* Fixups: icontains, replace_all, apply_fixups.                           *)
(***************************************************************************)
icontains(hay, needle) ==
  Only({find_from(h, n, 0) # npos(h) : h \in {lower(hay)}, n \in {lower(needle)}})

RECURSIVE replace_all_loop(_, _, _, _)
replace_all_loop(s, from, to, pos) ==
  LET p == find_from(s, from, pos)
  IN  IF p = npos(s) THEN s
      ELSE replace_all_loop(
             SubSeq(s, 1, p) \o to \o SubSeq(s, p + Len(from) + 1, Len(s)),
             from, to, p + Len(to))

replace_all(s, from, to) ==
  IF from = <<>> THEN s ELSE replace_all_loop(s, from, to, 0)


(***************************************************************************)
(* String literals of the generator, character by character.              *)
(***************************************************************************)
S_slug ==
  <<"s","l","u","g">>

S_file ==
  <<"f","i","l","e">>

S_base_image ==
  <<"b","a","s","e","_","i","m","a","g","e">>

S_install_cmd ==
  <<"i","n","s","t","a","l","l","_","c","m","d">>

S_env_path ==
  <<"e","n","v","_","p","a","t","h">>

S_build_cmd ==
  <<"b","u","i","l","d","_","c","m","d">>

S_run_cmd ==
  <<"r","u","n","_","c","m","d">>

S_hello ==
  <<"h","e","l","l","o">>

S_cobol ==
  <<"c","o","b","o","l">>

S_emojicode ==
  <<"e","m","o","j","i","c","o","d","e">>

S_cobc ==
  <<"c","o","b","c">>

S_free ==
  <<"-","f","r","e","e">>

S_cobc_dash ==
  <<"c","o","b","c"," ","-">>

S_cobc_free_dash ==
  <<"c","o","b","c"," ","-","f","r","e","e"," ","-">>

S_cobc_sp ==
  <<"c","o","b","c"," ">>

S_cobc_free_sp ==
  <<"c","o","b","c"," ","-","f","r","e","e"," ">>

S_cobc_free ==
  <<"c","o","b","c"," ","-","f","r","e","e">>

S_ubuntu ==
  <<"u","b","u","n","t","u",":","2","0",".","0","4">>

S_usr_local_bin ==
  <<"/","u","s","r","/","l","o","c","a","l","/","b","i","n">>

S_julia_colon ==
  <<"j","u","l","i","a",":">>

S_julia_bin ==
  <<"/","u","s","r","/","l","o","c","a","l","/","j","u","l","i","a","/","b",
    "i","n">>

S_heredoc ==
  <<"<","<">>

N_dockerignore ==
  <<".","d","o","c","k","e","r","i","g","n","o","r","e">>

N_Dockerfile ==
  <<"D","o","c","k","e","r","f","i","l","e">>

N_run_sh ==
  <<"r","u","n",".","s","h">>

T_dockerignore ==
  <<".","D","S","_","S","t","o","r","e","\n",".","g","i","t","\n",".","g",
    "i","t","i","g","n","o","r","e","\n">>

T_syntax ==
  <<"#"," ","s","y","n","t","a","x","=","d","o","c","k","e","r","/","d","o",
    "c","k","e","r","f","i","l","e",":","1","\n">>

T_FROM ==
  <<"F","R","O","M"," ">>

T_WORKDIR ==
  <<"W","O","R","K","D","I","R"," ","/","a","p","p","\n">>

T_RUN ==
  <<"R","U","N"," ">>

T_ENV_PATH ==
  <<"E","N","V"," ","P","A","T","H","=","\"">>

T_PATH_end ==
  <<":","$","P","A","T","H","\"","\n">>

T_COPY ==
  <<"C","O","P","Y"," ">>

T_COPY_end ==
  <<" ",".","\n">>

T_CMD ==
  <<"C","M","D"," ","[","\"","s","h","\"",","," ","\"","-","c","\"",","," ",
    "\"">>

T_CMD_end ==
  <<"\"","]","\n">>

T_runsh_head ==
  <<"#","!","/","u","s","r","/","b","i","n","/","e","n","v"," ","b","a","s",
    "h","\n","s","e","t"," ","-","e","u","o"," ","p","i","p","e","f","a",
    "i","l","\n","I","M","G","=","\"","h","e","l","l","o","-">>

T_runsh_tail ==
  <<"\"","\n","P","L","A","T","F","O","R","M","=","\"","$","{","P","O","L",
    "Y","G","L","O","T","_","P","L","A","T","F","O","R","M",":","-","}",
    "\"","\n","i","f"," ","["," ","-","n"," ","\"","$","P","L","A","T","F",
    "O","R","M","\""," ","]",";"," ","t","h","e","n","\n"," "," ","d","o",
    "c","k","e","r"," ","b","u","i","l","d"," ","-","-","p","l","a","t","f",
    "o","r","m"," ","\"","$","P","L","A","T","F","O","R","M","\""," ","-",
    "t"," ","\"","$","I","M","G","\""," ",".","\n"," "," ","d","o","c","k",
    "e","r"," ","r","u","n"," ","-","-","r","m"," ","-","-","p","l","a","t",
    "f","o","r","m"," ","\"","$","P","L","A","T","F","O","R","M","\""," ",
    "\"","$","I","M","G","\"","\n","e","l","s","e","\n"," "," ","d","o","c",
    "k","e","r"," ","b","u","i","l","d"," ","-","t"," ","\"","$","I","M",
    "G","\""," ",".","\n"," "," ","d","o","c","k","e","r"," ","r","u","n",
    " ","-","-","r","m"," ","\"","$","I","M","G","\"","\n","f","i","\n">>

T_runsh_legacy_tail ==
  <<"\"","\n","d","o","c","k","e","r"," ","b","u","i","l","d"," ","-","t",
    " ","\"","$","I","M","G","\""," ",".","\n","d","o","c","k","e","r"," ",
    "r","u","n"," ","-","-","r","m"," ","\"","$","I","M","G","\"","\n">>

T_emojicode_install ==
  <<"<","<","'","E","O","F","'","\n","s","e","t"," ","-","e","\n","e","x",
    "p","o","r","t"," ","D","E","B","I","A","N","_","F","R","O","N","T","E",
    "N","D","=","n","o","n","i","n","t","e","r","a","c","t","i","v","e",
    "\n","a","p","t","-","g","e","t"," ","u","p","d","a","t","e","\n","\n",
    "#"," ","T","o","o","l","c","h","a","i","n"," ","+"," ","d","e","p","s",
    "\n","a","p","t","-","g","e","t"," ","i","n","s","t","a","l","l"," ",
    "-","y"," ","-","-","n","o","-","i","n","s","t","a","l","l","-","r","e",
    "c","o","m","m","e","n","d","s"," ","\\","\n"," "," ","c","a","-","c",
    "e","r","t","i","f","i","c","a","t","e","s"," ","\\","\n"," "," ","b",
    "u","i","l","d","-","e","s","s","e","n","t","i","a","l"," ","\\","\n",
    " "," ","c","m","a","k","e"," ","\\","\n"," "," ","g","i","t"," ","\\",
    "\n"," "," ","l","i","b","f","f","i","-","d","e","v"," ","\\","\n"," ",
    " ","l","i","b","e","d","i","t","-","d","e","v"," ","\\","\n"," "," ",
    "z","l","i","b","1","g","-","d","e","v"," ","\\","\n"," "," ","c","l",
    "a","n","g","-","8"," ","\\","\n"," "," ","l","l","v","m","-","8"," ",
    "\\","\n"," "," ","l","l","v","m","-","8","-","d","e","v"," ","\\","\n",
    " "," ","l","l","v","m","-","8","-","t","o","o","l","s","\n","\n","r",
    "m"," ","-","r","f"," ","/","v","a","r","/","l","i","b","/","a","p","t",
    "/","l","i","s","t","s","/","*","\n","\n","#"," ","E","n","s","u","r",
    "e"," ","v","8"," ","t","o","o","l","s"," ","a","r","e"," ","t","h","e",
    " ","d","e","f","a","u","l","t","s"," ","(","o","n","l","y"," ","i","f",
    " ","t","h","e"," ","p","a","t","h","s"," ","e","x","i","s","t",")",
    "\n","i","f"," ","["," ","-","x"," ","/","u","s","r","/","b","i","n",
    "/","l","l","v","m","-","c","o","n","f","i","g","-","8"," ","]",";"," ",
    "t","h","e","n","\n"," "," ","u","p","d","a","t","e","-","a","l","t",
    "e","r","n","a","t","i","v","e","s"," ","-","-","i","n","s","t","a","l",
    "l"," ","/","u","s","r","/","b","i","n","/","l","l","v","m","-","c","o",
    "n","f","i","g"," ","l","l","v","m","-","c","o","n","f","i","g"," ","/",
    "u","s","r","/","b","i","n","/","l","l","v","m","-","c","o","n","f","i",
    "g","-","8"," ","1","0","0"," ","|","|"," ","t","r","u","e","\n","f",
    "i","\n","i","f"," ","["," ","-","x"," ","/","u","s","r","/","b","i",
    "n","/","c","l","a","n","g","-","8"," ","]",";"," ","t","h","e","n",
    "\n"," "," ","u","p","d","a","t","e","-","a","l","t","e","r","n","a",
    "t","i","v","e","s"," ","-","-","i","n","s","t","a","l","l"," ","/","u",
    "s","r","/","b","i","n","/","c","l","a","n","g"," ","c","l","a","n","g",
    " ","/","u","s","r","/","b","i","n","/","c","l","a","n","g","-","8"," ",
    "1","0","0"," ","|","|"," ","t","r","u","e","\n","f","i","\n","i","f",
    " ","["," ","-","x"," ","/","u","s","r","/","b","i","n","/","c","l","a",
    "n","g","+","+","-","8"," ","]",";"," ","t","h","e","n","\n"," "," ",
    "u","p","d","a","t","e","-","a","l","t","e","r","n","a","t","i","v","e",
    "s"," ","-","-","i","n","s","t","a","l","l"," ","/","u","s","r","/","b",
    "i","n","/","c","l","a","n","g","+","+"," ","c","l","a","n","g","+","+",
    " ","/","u","s","r","/","b","i","n","/","c","l","a","n","g","+","+","-",
    "8"," ","1","0","0"," ","|","|"," ","t","r","u","e","\n","f","i","\n",
    "\n","#"," ","B","u","i","l","d"," ","e","m","o","j","i","c","o","d",
    "e","\n","g","i","t"," ","c","l","o","n","e"," ","-","-","d","e","p",
    "t","h","=","1"," ","h","t","t","p","s",":","/","/","g","i","t","h","u",
    "b",".","c","o","m","/","e","m","o","j","i","c","o","d","e","/","e","m",
    "o","j","i","c","o","d","e",".","g","i","t"," ","/","t","m","p","/","e",
    "m","o","j","i","c","\n","m","k","d","i","r"," ","-","p"," ","/","t",
    "m","p","/","e","m","o","j","i","c","/","b","u","i","l","d","\n","c",
    "d"," ","/","t","m","p","/","e","m","o","j","i","c","/","b","u","i","l",
    "d","\n","\n","L","L","V","M","_","D","I","R","=","\"","$","(","l","l",
    "v","m","-","c","o","n","f","i","g"," ","-","-","c","m","a","k","e","d",
    "i","r"," ","2",">","/","d","e","v","/","n","u","l","l"," ","|","|"," ",
    "t","r","u","e",")","\"","\n","i","f"," ","["," ","-","z"," ","\"","$",
    "L","L","V","M","_","D","I","R","\""," ","]",";"," ","t","h","e","n",
    "\n"," "," ","L","L","V","M","_","D","I","R","=","\"","$","(","l","l",
    "v","m","-","c","o","n","f","i","g"," ","-","-","p","r","e","f","i","x",
    ")","/","l","i","b","/","c","m","a","k","e","/","l","l","v","m","\"",
    "\n","f","i","\n","\n","c","m","a","k","e"," ","-","D","L","L","V","M",
    "_","D","I","R","=","\"","$","L","L","V","M","_","D","I","R","\""," ",
    ".",".","\n","m","a","k","e"," ","-","j","\"","$","(","n","p","r","o",
    "c",")","\"","\n","m","a","k","e"," ","i","n","s","t","a","l","l","\n",
    "r","m"," ","-","r","f"," ","/","t","m","p","/","e","m","o","j","i","c",
    "\n","E","O","F">>

(***************************************************************************)
(* apply_fixups.  A LangSpec is a record of the eight fields; the result   *)
(* carries threw = TRUE when std::string::substr throws std::out_of_range  *)
(* (position beyond the size of the string).                               *)
(***************************************************************************)
\* the last resort of the COBOL fixup: s.build_cmd.substr(5)
cobol_last_resort(b2) ==
  IF ~icontains(b2, S_free)
  THEN IF Len(b2) < 5
       THEN [build_cmd |-> b2, threw |-> TRUE]
       ELSE [build_cmd |-> S_cobc_free_sp \o substr_from(b2, 5), threw |-> FALSE]
  ELSE [build_cmd |-> b2, threw |-> FALSE]

cobol_prefix(b1) ==
  IF starts_with(b1, S_cobc_sp) /\ ~icontains(b1, S_cobc_free)
  THEN replace_all(b1, S_cobc_sp, S_cobc_free_sp)
  ELSE b1

cobol_fixup(build_cmd) ==
  IF icontains(build_cmd, S_cobc) /\ ~icontains(build_cmd, S_free)
  THEN Only({cobol_last_resort(b2) :
               b2 \in {cobol_prefix(b1) :
                         b1 \in {replace_all(build_cmd, S_cobc_dash,
                                             S_cobc_free_dash)}}})
  ELSE [build_cmd |-> build_cmd, threw |-> FALSE]

apply_fixups(s) ==
  LET cob == IF s.slug = S_cobol THEN cobol_fixup(s.build_cmd)
             ELSE [build_cmd |-> s.build_cmd, threw |-> FALSE]
      s1  == [s EXCEPT !.build_cmd = cob.build_cmd]
      s2  == IF s1.slug = S_emojicode
             THEN [s1 EXCEPT !.base_image  = S_ubuntu,
                             !.env_path    = S_usr_local_bin,
                             !.install_cmd = T_emojicode_install]
             ELSE s1
      s3  == IF s2.env_path = <<>> /\ starts_with(s2.base_image, S_julia_colon)
             THEN [s2 EXCEPT !.env_path = S_julia_bin]
             ELSE s2
  IN  IF cob.threw THEN [spec |-> s1, threw |-> TRUE]
      ELSE [spec |-> s3, threw |-> FALSE]

(***************************************************************************)
(* The output tree.  A path is <<slug, name>>: the file name inside        *)
(* languages/<slug>/.  A filesystem state st is a record                   *)
(*   files : path -> content      dirs  : the entry directories           *)
(*   xbits : paths with an executable bit                                  *)
(*   ro    : paths std::ofstream cannot open for writing                   *)
(*   log   : what this run did, in order                                   *)
(*   threw : an exception is on its way to main's handler                  *)
(***************************************************************************)
Path(slug, name) == <<slug, name>>

\* one entry of the log: op is "mkdir", "write", "remove" (on the directory
\* slug, for the file names), "warn" (slug holds the skipped line) or "ok"
Event(op, slug, names) == [op |-> op, slug |-> slug, names |-> names]

names_in(st, slug) == {p[2] : p \in {q \in DOMAIN st.files : q[1] = slug}}

\* std::ofstream f(p): fails on a directory and on a path that is not writable
ofstream_fails(st, p) == p \in st.ro \/ p[2] \in {<<>>, <<".">>, <<".", ".">>}

fs_write(st, p, content) ==
  IF st.threw THEN st
  ELSE IF ofstream_fails(st, p) THEN [st EXCEPT !.threw = TRUE]
  ELSE [st EXCEPT !.files = (p :> content) @@ @,
                  !.log   = Append(@, Event("write", p[1], {p[2]}))]

read_file_or_empty(st, p) == IF p \in DOMAIN st.files THEN st.files[p] ELSE <<>>

\* tools/scaffold.cpp: an existing file is never rewritten without --force
write_file_if_needed(st, p, content, forced) ==
  IF st.threw THEN st
  ELSE IF p \in DOMAIN st.files /\ ~forced THEN st
  ELSE fs_write(st, p, content)

\* a write that is not gated by the comparison with the existing bytes
write_file_always(st, p, content) == fs_write(st, p, content)

write_file_if_changed(st, p, content) ==
  LET existing == read_file_or_empty(st, p)
  IN  IF st.threw THEN st
      ELSE IF existing # <<>> /\ existing = content THEN st
      ELSE fs_write(st, p, content)

\* st, p and content are values here (see write_entry)
write_file(st, p, content, forced) ==
  IF forced THEN fs_write(st, p, content)
  ELSE write_file_if_changed(st, p, content)

create_directories(st, slug) ==
  IF st.threw \/ slug \in st.dirs THEN st
  ELSE [st EXCEPT !.dirs = @ \cup {slug},
                  !.log  = Append(@, Event("mkdir", slug, {}))]

\* a guard that removes the exactly-named file only
remove_exact_target(st, slug, target) ==
  LET gone == {n \in names_in(st, slug) : n = target}
      keep == {p \in DOMAIN st.files : ~(p[1] = slug /\ p[2] \in gone)}
  IN  IF st.threw \/ slug \notin st.dirs \/ gone = {} THEN st
      ELSE [st EXCEPT !.files = [p \in keep |-> st.files[p]],
                      !.xbits = @ \cap keep,
                      !.log   = Append(@, Event("remove", slug, gone))]

remove_case_insensitive_conflicts(st, slug, target) ==
  LET gone == {n \in names_in(st, slug) :
                 \/ (lower(n) = lower(target) /\ n # target)
                 \/ n = target}
      keep == {p \in DOMAIN st.files : ~(p[1] = slug /\ p[2] \in gone)}
  IN  IF st.threw \/ slug \notin st.dirs \/ gone = {} THEN st
      ELSE [st EXCEPT !.files = [p \in keep |-> st.files[p]],
                      !.xbits = @ \cap keep,
                      !.log   = Append(@, Event("remove", slug, gone))]

add_exec(st, p) ==
  IF st.threw THEN st ELSE [st EXCEPT !.xbits = @ \cup {p}]

say(st, event) ==
  IF st.threw THEN st ELSE [st EXCEPT !.log = Append(@, event)]


(***************************************************************************)
(* main: header detection and the field accessor get.                      *)
(***************************************************************************)
\* (size_t)-1: larger than any column count
kNoIndex == 2147483647

looks_like_header(cols) ==
  IF cols = <<>> THEN FALSE ELSE lower(trim(cols[1])) = S_slug

\* h[key] = i for every column: a later column with the same key wins
header_index(first_cols) ==
  LET key(i) == lower(trim(first_cols[i]))
      keys   == {key(i) : i \in 1..Len(first_cols)} \ {<<>>}
  IN  [k \in keys |->
         (CHOOSE i \in 1..Len(first_cols) :
            /\ key(i) = k
            /\ \A j \in (i + 1)..Len(first_cols) : key(j) # k) - 1]

\* process_line: "if (trim(line).empty()) return;" and the '#' test
is_blank_or_comment(line) ==
  Only({t = <<>> \/ t[1] = "#" : t \in {trim(line)}})

detect_header(first) ==
  Only({IF looks_like_header(first_cols)
        THEN [has_header |-> TRUE, h |-> header_index(first_cols)]
        ELSE [has_header |-> FALSE, h |-> <<>>] :
          first_cols \in {split_tabs(first)}})

\* a get that ignores the header and always reads by position
get_positional(hd, cols, name, fallback_index) ==
  IF fallback_index # kNoIndex /\ fallback_index < Len(cols)
  THEN cols[fallback_index + 1]
  ELSE <<>>

get(hd, cols, name, fallback_index) ==
  IF hd.has_header /\ name \in DOMAIN hd.h /\ hd.h[name] < Len(cols)
  THEN cols[hd.h[name] + 1]
  ELSE IF fallback_index # kNoIndex /\ fallback_index < Len(cols)
       THEN cols[fallback_index + 1]
       ELSE <<>>

(***************************************************************************)
(* process_line.                                                           *)
(***************************************************************************)
parse_fields(hd, cols) ==
  [slug        |-> trim(get(hd, cols, S_slug, 0)),
   file        |-> trim(get(hd, cols, S_file, 1)),
   base_image  |-> trim(get(hd, cols, S_base_image, 2)),
   install_cmd |-> trim(get(hd, cols, S_install_cmd, kNoIndex)),
   env_path    |-> trim(get(hd, cols, S_env_path, kNoIndex)),
   build_cmd   |-> trim(get(hd, cols, S_build_cmd, 3)),
   run_cmd     |-> trim(get(hd, cols, S_run_cmd, 4)),
   hello       |-> get(hd, cols, S_hello, 5)]

\* a validation that forgets run_cmd
malformed_without_run_cmd(s) ==
  s.slug = <<>> \/ s.file = <<>> \/ s.base_image = <<>>

malformed(s) ==
  s.slug = <<>> \/ s.file = <<>> \/ s.base_image = <<>> \/ s.run_cmd = <<>>

unescape_fields(s) ==
  [f \in DOMAIN s |-> strip_utf8_bom(unescape(s[f]))]

\* a newline appended in every case
hello_content_legacy(hello) == Append(hello, NL)

hello_content_of(hello) ==
  IF ends_with_nl(hello) THEN hello ELSE Append(hello, NL)

dockerfile_of(s, effective_file) ==
  T_syntax \o T_FROM \o s.base_image \o <<NL>> \o T_WORKDIR
  \o (IF s.install_cmd # <<>>
      THEN IF starts_with(trim(s.install_cmd), S_heredoc)
           THEN T_RUN \o trim(s.install_cmd) \o <<NL>>
           ELSE T_RUN \o s.install_cmd \o <<NL>>
      ELSE <<>>)
  \o (IF s.env_path # <<>> THEN T_ENV_PATH \o s.env_path \o T_PATH_end ELSE <<>>)
  \o T_COPY \o effective_file \o T_COPY_end
  \o (IF s.build_cmd # <<>> THEN T_RUN \o s.build_cmd \o <<NL>> ELSE <<>>)
  \o T_CMD \o json_escape(s.run_cmd) \o T_CMD_end

\* the launcher of the legacy revision, as in languages/python/run.sh
runsh_legacy_of(s) == T_runsh_head \o s.slug \o T_runsh_legacy_tail

runsh_of(s) == T_runsh_head \o s.slug \o T_runsh_tail

\* the artifacts of an entry, in the order process_line writes them; every
\* intermediate tree and every composed text is bound once
write_entry(st, forced, s, eff) ==
  Only({say(add_exec(st6, Path(s.slug, N_run_sh)), Event("ok", s.slug, {})) :
    st6 \in {write_file(st5, Path(s.slug, N_run_sh), c, forced) :
      c \in {runsh_of(s)},
      st5 \in {write_file(st4, Path(s.slug, N_Dockerfile), d, forced) :
        d \in {dockerfile_of(s, eff)},
        st4 \in {write_file(st3, Path(s.slug, eff), hc, TRUE) :
          hc \in {hello_content_of(s.hello)},
          st3 \in {remove_case_insensitive_conflicts(st2, s.slug, eff) :
            st2 \in {write_file(st1, Path(s.slug, N_dockerignore),
                                T_dockerignore, forced) :
              st1 \in {create_directories(st, s.slug)}}}}}}})

\* the entry of a row that passed validation: fixups, then the artifacts
scaffold_entry(st, forced, raw) ==
  Only({IF fixed.threw THEN [st EXCEPT !.threw = TRUE]
        ELSE Only({write_entry(st, forced, fixed.spec, eff) :
                     eff \in {effective_file_of(fixed.spec.file,
                                                fixed.spec.build_cmd,
                                                fixed.spec.run_cmd)}}) :
          fixed \in {apply_fixups(u) : u \in {unescape_fields(raw)}}})

\* a malformed row raised as an error instead of being skipped
process_row_strict(st, forced, raw_line, raw) ==
  IF malformed(raw) THEN [st EXCEPT !.threw = TRUE]
  ELSE scaffold_entry(st, forced, raw)

process_row(st, forced, raw_line, raw) ==
  IF malformed(raw) THEN say(st, Event("warn", raw_line, {}))
  ELSE scaffold_entry(st, forced, raw)

process_line(st, hd, forced, raw_line) ==
  IF is_blank_or_comment(raw_line) THEN st
  ELSE Only({process_row(st, forced, raw_line, raw) :
               raw \in {parse_fields(hd, cols) : cols \in {split_tabs(raw_line)}}})


(***************************************************************************)
(* The manifests and trees the generator is run on.  A row is its six      *)
(* fields in the canonical order slug, file, base_image, build_cmd,        *)
(* run_cmd, hello, as written in the manifest (before unescaping).         *)
(***************************************************************************)
Row_py ==
  <<<<"a">>,
    <<"m", ".", "p", "y">>,
    <<"b">>,
    <<>>,
    <<"x", " ", ".", "/", "h", ".", "p", "y">>,
    <<"p", "\\", "n">>>>

Row_upper ==
  <<<<"a">>,
    <<"H", ".", "p", "y">>,
    <<"b">>,
    <<>>,
    <<"x", " ", "H", ".", "p", "y">>,
    <<"p">>>>

Row_docker ==
  <<<<"d">>,
    <<"D", "o", "c", "k", "e", "r", "f", "i", "l", "e">>,
    <<"b">>,
    <<>>,
    <<"x">>,
    <<"p">>>>

Row_ignore ==
  <<<<"i">>,
    <<".", "d", "o", "c", "k", "e", "r", "i", "g", "n", "o", "r", "e">>,
    <<"b">>,
    <<>>,
    <<"x">>,
    <<"p">>>>

Row_norun ==
  <<<<"n">>,
    <<"h", ".", "p", "y">>,
    <<"b">>,
    <<>>,
    <<>>,
    <<"p">>>>

Row_cobol ==
  <<<<"c", "o", "b", "o", "l">>,
    <<"h", ".", "c", "o", "b">>,
    <<"b">>,
    <<"c", "o", "b", "c">>,
    <<".", "/", "h">>,
    <<"p">>>>

Row_slug ==
  <<<<"S", "l", "u", "g">>,
    <<"h", ".", "p", "y">>,
    <<"b">>,
    <<>>,
    <<"x">>,
    <<"p">>>>

Row_txt ==
  <<<<"t">>,
    <<"h", "e", "l", "l", "o", ".", "t", "x", "t">>,
    <<"b">>,
    <<>>,
    <<"r", "u", "n", " ", ".", "/", "m", "a", "i", "n", ".", "p", "y">>,
    <<"p">>>>

RowPool == {Row_py, Row_upper, Row_docker, Row_ignore, Row_norun, Row_cobol,
           Row_slug, Row_txt}

ColumnNames == <<S_slug, S_file, S_base_image, S_build_cmd, S_run_cmd, S_hello>>

RECURSIVE join_tabs(_)
join_tabs(fields) ==
  IF Len(fields) = 1 THEN fields[1]
  ELSE fields[1] \o <<TAB>> \o join_tabs(Tail(fields))

\* the line of a row (or of the header) with the columns in the order perm
line_of(fields, perm) == join_tabs([i \in 1..Len(perm) |-> fields[perm[i]]])

Canonical == <<1, 2, 3, 4, 5, 6>>
CommentLine == <<"#", " ", "c">>

Layouts == {"plain", "header", "comment"}

\* the same layouts in a file that starts with the three bytes EF BB BF
BomLayouts == {"bom_plain", "bom_header"}

unmarked(layout) == IF layout = "bom_plain" THEN "plain"
                    ELSE IF layout = "bom_header" THEN "header"
                    ELSE layout

\* the lines std::getline gives for a file whose first bytes are the mark
with_bom(lines) ==
  IF lines = <<>> THEN <<BOM>> ELSE <<BOM \o lines[1]>> \o Tail(lines)

render(rows, layout, perm) ==
  LET body == [i \in 1..Len(rows) |-> line_of(rows[i], perm)]
      head == <<line_of(ColumnNames, perm)>>
  IN  IF layout = "plain" THEN body
      ELSE IF layout = "header" THEN head \o body
      ELSE IF layout = "bom_plain" THEN with_bom(body)
      ELSE IF layout = "bom_header" THEN with_bom(head \o body)
      ELSE <<CommentLine>> \o head \o body

RowLists == UNION {[1..n -> RowPool] : n \in 0..MaxRows}

T_stale == <<"o", "l", "d", NL>>

\* what an earlier manifest and an earlier generator left in languages/a,
\* languages/d and languages/i
StaleFiles ==
  LET slugs == {<<"a">>, <<"d">>, <<"i">>}
      names == {N_dockerignore, N_Dockerfile, N_run_sh}
  IN  [p \in (slugs \X names) \cup {<<<<"a">>, <<"H", ".", "P", "Y">>>>,
                                      <<<<"a">>, <<"h", ".", "p", "y">>>>} |->
         IF p[2] = N_run_sh THEN T_runsh_head \o p[1] \o T_runsh_legacy_tail
         ELSE T_stale]

EmptyTree ==
  [files |-> <<>>, dirs |-> {}, xbits |-> {}, ro |-> {}, log |-> <<>>,
   threw |-> FALSE]

\* the stale tree, with languages/t/Dockerfile not writable
StaleTree ==
  [EmptyTree EXCEPT !.files = StaleFiles,
                    !.dirs  = {<<"a">>, <<"d">>, <<"i">>},
                    !.ro    = {Path(<<"t">>, N_Dockerfile)}]

InitTrees == {EmptyTree, StaleTree}

\* the tree a run starts from, and how the run before it ended
Snapshot(t, st) ==
  [status |-> st, files |-> t.files, dirs |-> t.dirs, xbits |-> t.xbits]

(***************************************************************************)
(* The generator as a state machine: main.                                 *)
(***************************************************************************)
StrIdle == str = <<>> /\ strOut = <<>> /\ strOp = "off"

ExecIdle ==
  /\ entries = <<>> /\ filters = <<>> /\ verbose = FALSE /\ langs = <<>>
  /\ idx = 0 /\ passes = <<>> /\ fails = <<>> /\ skips = <<>>
  /\ invoked = <<>> /\ running = <<>> /\ printed = <<>>
  /\ xpc = "off" /\ xstatus = "running"

ShOff ==
  [pc |-> 0, errexit |-> FALSE, vars |-> <<>>, last |-> 0, calls |-> <<>>,
   done |-> FALSE, exit |-> 0]

ShIdle ==
  /\ script = <<>>
  /\ world = [slug |-> <<>>, set |-> FALSE, value |-> <<>>, build |-> 0,
              run |-> 0]
  /\ sh = ShOff

GenInit(rows, layout, perm, f, t) ==
  /\ input = [rows |-> rows, layout |-> layout, perm |-> perm, arg |-> "file"]
  /\ manifest = render(rows, layout, perm)
  /\ force = f
  /\ hdr = [has_header |-> FALSE, h |-> <<>>]
  /\ lineNo = 1
  /\ pc = "start"
  /\ status = "running"
  /\ tree = t
  /\ runNo = 1
  /\ prev = Snapshot(t, "none")

GenIdle ==
  /\ input = [rows |-> <<>>, layout |-> "plain", perm |-> Canonical,
              arg |-> "file"]
  /\ manifest = <<>>
  /\ force = FALSE
  /\ hdr = [has_header |-> FALSE, h |-> <<>>]
  /\ lineNo = 1
  /\ pc = "off"
  /\ status = "running"
  /\ tree = EmptyTree
  /\ runNo = 1
  /\ prev = Snapshot(EmptyTree, "none")

\* the manifest argument: a file that opens, one that does not, or none
BadArgs == {"unreadable", "none"}

\* the generator called without a manifest it can open
GenInitBadArg(arg, f, t) ==
  /\ input = [rows |-> <<>>, layout |-> "plain", perm |-> Canonical,
              arg |-> arg]
  /\ manifest = <<>>
  /\ force = f
  /\ hdr = [has_header |-> FALSE, h |-> <<>>]
  /\ lineNo = 1
  /\ pc = "start"
  /\ status = "running"
  /\ tree = t
  /\ runNo = 1
  /\ prev = Snapshot(t, "none")

Init ==
  /\ \/ \E rows \in RowLists, layout \in Layouts, f \in BOOLEAN,
          t \in InitTrees :
          GenInit(rows, layout, Canonical, f, t)
     \/ \E arg \in BadArgs, f \in BOOLEAN, t \in InitTrees :
          GenInitBadArg(arg, f, t)
  /\ StrIdle
  /\ ExecIdle
  /\ ShIdle

\* main called without a manifest argument, or with one it cannot open:
\* return 2
Usage ==
  /\ pc = "start"
  /\ input.arg # "file"
  /\ pc' = "exit"
  /\ status' = "exit2"
  /\ UNCHANGED <<input, manifest, force, hdr, lineNo, tree, runNo, prev>>
  /\ UNCHANGED <<strVars, execVars, shVars>>

\* main up to the row loop: an empty manifest ends the run at once, else the
\* first line decides has_header
Start ==
  /\ pc = "start"
  /\ input.arg = "file"
  /\ IF manifest = <<>>
     THEN /\ pc' = "exit"
          /\ status' = "exit0"
          /\ UNCHANGED <<hdr, lineNo>>
     ELSE /\ hdr' = detect_header(manifest[1])
          /\ lineNo' = IF hdr'.has_header THEN 2 ELSE 1
          /\ pc' = "loop"
          /\ UNCHANGED status
  /\ UNCHANGED <<input, manifest, force, tree, runNo, prev>>
  /\ UNCHANGED <<strVars, execVars, shVars>>

\* one call of process_line; an exception leaves the loop through main's
\* catch block, which returns 1
ProcessLine ==
  /\ pc = "loop"
  /\ lineNo <= Len(manifest)
  /\ \E st \in {process_line(tree, hdr, force, manifest[lineNo])} :
       /\ tree' = st
       /\ IF st.threw
          THEN pc' = "exit" /\ status' = "exit1"
          ELSE UNCHANGED <<pc, status>>
  /\ lineNo' = lineNo + 1
  /\ UNCHANGED <<input, manifest, force, hdr, runNo, prev>>
  /\ UNCHANGED <<strVars, execVars, shVars>>

\* the end of the manifest: return 0
Finish ==
  /\ pc = "loop"
  /\ lineNo > Len(manifest)
  /\ pc' = "exit"
  /\ status' = "exit0"
  /\ UNCHANGED <<input, manifest, force, hdr, lineNo, tree, runNo, prev>>
  /\ UNCHANGED <<strVars, execVars, shVars>>

\* the generator is invoked again, with the same arguments, on the unchanged
\* manifest
Rerun ==
  /\ pc = "exit"
  /\ runNo < MaxRuns
  /\ prev' = Snapshot(tree, status)
  /\ tree' = [tree EXCEPT !.log = <<>>, !.threw = FALSE]
  /\ hdr' = [has_header |-> FALSE, h |-> <<>>]
  /\ lineNo' = 1
  /\ pc' = "start"
  /\ status' = "running"
  /\ runNo' = runNo + 1
  /\ UNCHANGED <<input, manifest, force>>
  /\ UNCHANGED <<strVars, execVars, shVars>>

Next == Usage \/ Start \/ ProcessLine \/ Finish \/ Rerun

Spec == Init /\ [][Next]_vars


(***************************************************************************)
(* main as a function of the manifest: the tree a whole run leaves.        *)
(***************************************************************************)
RECURSIVE run_lines(_, _, _, _, _)
run_lines(st, hd, forced, lines, i) ==
  IF i > Len(lines) \/ st.threw THEN st
  ELSE Only({run_lines(st1, hd, forced, lines, i + 1) :
               st1 \in {process_line(st, hd, forced, lines[i])}})

run_main(st, forced, lines) ==
  IF lines = <<>> THEN st
  ELSE Only({run_lines(st, hd, forced, lines, IF hd.has_header THEN 2 ELSE 1) :
               hd \in {detect_header(lines[1])}})

\* the tree the current run started from
StartTree ==
  [files |-> prev.files, dirs |-> prev.dirs, xbits |-> prev.xbits,
   ro |-> tree.ro, log |-> <<>>, threw |-> FALSE]

SameTree(a, b) == a.files = b.files /\ a.dirs = b.dirs /\ a.xbits = b.xbits

(***************************************************************************)
(* The generator run on a manifest with an explicit header that names the  *)
(* six columns in some order, the rows being written in the same order.    *)
(***************************************************************************)
ColumnOrders == {p \in [1..6 -> 1..6] : \A i, j \in 1..6 : p[i] = p[j] => i = j}

EquivPool == {Row_py, Row_slug}

EquivRowLists == UNION {[1..n -> EquivPool] : n \in 0..MaxRows}

InitEquiv ==
  /\ \E rows \in EquivRowLists, perm \in ColumnOrders :
       GenInit(rows, "header", perm, FALSE, EmptyTree)
  /\ StrIdle
  /\ ExecIdle
  /\ ShIdle

NextEquiv == Start \/ ProcessLine \/ Finish

SpecEquiv == InitEquiv /\ [][NextEquiv]_vars

(***************************************************************************)
(* The generator run once, from an empty tree, on a manifest file that     *)
(* starts with a byte-order mark.                                          *)
(***************************************************************************)
InitBom ==
  /\ \E rows \in RowLists, layout \in BomLayouts, f \in BOOLEAN :
       GenInit(rows, layout, Canonical, f, EmptyTree)
  /\ StrIdle
  /\ ExecIdle
  /\ ShIdle

NextBom == Start \/ ProcessLine \/ Finish

SpecBom == InitBom /\ [][NextBom]_vars

(***************************************************************************)
(* The generator run once on rows whose source file name differs only in   *)
(* case from a file of the entry directory, or from the name of a          *)
(* generated file.  The file system is case-sensitive.                     *)
(***************************************************************************)
Row_dockerfile ==
  <<<<"d">>, <<"d", "o", "c", "k", "e", "r", "f", "i", "l", "e">>, <<"b">>, <<>>, <<"x">>, <<"p">>>>

Row_runsh ==
  <<<<"d">>, <<"R", "U", "N", ".", "S", "H">>, <<"b">>, <<>>, <<"x">>, <<"p">>>>

CasePool == {Row_py, Row_upper, Row_docker, Row_dockerfile, Row_runsh}

CaseRowLists == UNION {[1..n -> CasePool] : n \in 0..MaxRows}

InitCase ==
  /\ \E rows \in CaseRowLists, f \in BOOLEAN, t \in InitTrees :
       GenInit(rows, "plain", Canonical, f, t)
  /\ StrIdle
  /\ ExecIdle
  /\ ShIdle

NextCase == Start \/ ProcessLine \/ Finish

SpecCase == InitCase /\ [][NextCase]_vars

(***************************************************************************)
(* Where the entry directory is.  main sets languages_dir to               *)
(* current_path() / "languages" and process_line sets dir to               *)
(* languages_dir / spec.slug, with the slug as the manifest gave it.  A    *)
(* location is the path that results, relative to the current directory:   *)
(*   abs   : the path is absolute (operator/ with an absolute right side   *)
(*           replaces the left side)                                       *)
(*   up    : how many levels above the current directory it starts         *)
(*   comps : the components below that                                     *)
(***************************************************************************)
S_languages == <<"l", "a", "n", "g", "u", "a", "g", "e", "s">>

RECURSIVE path_components_loop(_, _, _, _)
path_components_loop(s, i, cur, out) ==
  IF i > Len(s) THEN Append(out, cur)
  ELSE IF s[i] = "/" THEN path_components_loop(s, i + 1, <<>>, Append(out, cur))
  ELSE path_components_loop(s, i + 1, Append(cur, s[i]), out)

path_components(s) == path_components_loop(s, 1, <<>>, <<>>)

\* one component followed from loc: "" and "." stay, ".." goes to the parent
step_into(loc, c) ==
  IF c = <<>> \/ c = <<".">> THEN loc
  ELSE IF c = <<".", ".">>
       THEN IF loc.comps # <<>>
            THEN [loc EXCEPT !.comps = SubSeq(@, 1, Len(@) - 1)]
            ELSE IF loc.abs THEN loc
            ELSE [loc EXCEPT !.up = @ + 1]
  ELSE [loc EXCEPT !.comps = Append(@, c)]

RECURSIVE descend(_, _, _)
descend(loc, comps, i) ==
  IF i > Len(comps) THEN loc
  ELSE descend(step_into(loc, comps[i]), comps, i + 1)

\* languages_dir / slug
entry_dir(slug) ==
  IF slug # <<>> /\ slug[1] = "/"
  THEN descend([abs |-> TRUE, up |-> 0, comps |-> <<>>],
               path_components(slug), 1)
  ELSE descend([abs |-> FALSE, up |-> 0, comps |-> <<S_languages>>],
               path_components(slug), 1)

\* dir / name
file_in(slug, name) == descend(entry_dir(slug), path_components(name), 1)

(***************************************************************************)
(* The generator run once, from an empty tree, on rows whose slug or file  *)
(* field holds path separators or "..".                                    *)
(***************************************************************************)
ConfineSlugs == {<<"a">>, <<".", ".">>, <<".", ".", "/", "x">>, <<"a", "/", "b">>, <<"/", "t">>, <<"a", "/", ".", ".", "/", ".", ".">>}

ConfineFiles == {<<"h", ".", "p", "y">>, <<".", ".", "/", "h", ".", "p", "y">>}

ConfineRows ==
  {<<sl, fl, <<"b">>, <<>>, <<"x">>, <<"p">>>> :
     sl \in ConfineSlugs, fl \in ConfineFiles}

ConfineRowLists == UNION {[1..n -> ConfineRows] : n \in 0..MaxRows}

InitConfine ==
  /\ \E rows \in ConfineRowLists, f \in BOOLEAN :
       GenInit(rows, "plain", Canonical, f, EmptyTree)
  /\ StrIdle
  /\ ExecIdle
  /\ ShIdle

NextConfine == Start \/ ProcessLine \/ Finish

SpecConfine == InitConfine /\ [][NextConfine]_vars

(***************************************************************************)
(* The generator run on a manifest of one row, to see what becomes of one  *)
(* field: the hello field (the source file) or the run_cmd field (the      *)
(* last line of the Dockerfile).  A field holds no tab and no newline,     *)
(* which split_tabs and std::getline take as separators.                   *)
(***************************************************************************)
HelloAlphabet == {BSL, "n", "t", "r", DQ, SQ, "x", "EF", "BB", "BF"}

CommandAlphabet == {BSL, "n", "t", "r", DQ, FF, "x", " "}

StringsOver(A, n) == UNION {[1..k -> A] : k \in 0..n}

OneRowSlug == <<"s">>
OneRowFile == <<"f">>

row_with_hello(text) ==
  <<OneRowSlug, OneRowFile, <<"b">>, <<>>, <<"x">>, text>>

row_with_run_cmd(text) ==
  <<OneRowSlug, OneRowFile, <<"b">>, <<>>, text, <<"p">>>>

\* the tree main leaves for the manifest made of the one row
one_row_run(row) == run_main(EmptyTree, FALSE, <<line_of(row, Canonical)>>)

InitStr ==
  /\ GenIdle
  /\ ExecIdle
  /\ ShIdle
  /\ strOut = <<>>
  /\ \/ strOp = "field" /\ str \in StringsOver(HelloAlphabet, MaxStrLen)
     \/ strOp = "command" /\ str \in StringsOver(CommandAlphabet, MaxStrLen)

\* the source file of the entry
WriteSource ==
  /\ strOp = "field"
  /\ \E st \in {one_row_run(row_with_hello(str))} :
       strOut' = st.files[Path(OneRowSlug, OneRowFile)]
  /\ strOp' = "source"
  /\ UNCHANGED <<str, genVars, execVars, shVars>>

\* the Dockerfile of the entry; a row without run_cmd is skipped
WriteRecipe ==
  /\ strOp = "command"
  /\ \E st \in {one_row_run(row_with_run_cmd(str))} :
       IF Path(OneRowSlug, N_Dockerfile) \in DOMAIN st.files
       THEN /\ strOut' = st.files[Path(OneRowSlug, N_Dockerfile)]
            /\ strOp' = "recipe"
       ELSE /\ strOut' = <<>>
            /\ strOp' = "skipped"
  /\ UNCHANGED <<str, genVars, execVars, shVars>>

NextStr == WriteSource \/ WriteRecipe

SpecStr == InitStr /\ [][NextStr]_vars

(***************************************************************************)
(* The file name of a row: the step "Determine filename to generate/copy"  *)
(* of process_line, applied to the file, build_cmd and run_cmd fields of   *)
(* a valid row (after unescape and apply_fixups).  Commands are lists of   *)
(* up to MaxTokens words separated by one blank.                           *)
(***************************************************************************)
CommandWords == {<<"b", ".", "c">>,
                 <<".", "/", "d", "/", "e", ".", "c", ";">>,
                 <<SQ, "f", " ", "g", ".", "c", SQ>>,
                 <<"h", ".", "c", "/">>,
                 <<"-", "o">>}

FileFields == {<<"a", ".", "c">>, <<".", "/", "s", "/", "a", ".", "c">>, <<"a">>, <<"s", "/">>, <<"a", ".", "x">>}

RECURSIVE join_blanks(_)
join_blanks(words) ==
  IF words = <<>> THEN <<>>
  ELSE IF Len(words) = 1 THEN words[1]
  ELSE words[1] \o <<" ">> \o join_blanks(Tail(words))

Commands ==
  {join_blanks(ws) : ws \in UNION {[1..n -> CommandWords] : n \in 0..MaxTokens}}

InitName ==
  /\ GenIdle
  /\ ExecIdle
  /\ ShIdle
  /\ strOut = <<>>
  /\ strOp = "fields"
  /\ str \in [file : FileFields, build_cmd : Commands, run_cmd : Commands]

ResolveName ==
  /\ strOp = "fields"
  /\ strOut' = effective_file_of(str.file, str.build_cmd, str.run_cmd)
  /\ strOp' = "resolved"
  /\ UNCHANGED <<str, genVars, execVars, shVars>>

NextName == ResolveName

SpecName == InitName /\ [][NextName]_vars

(***************************************************************************)
(* The fixups of a row: apply_fixups, applied to the fields of a valid row *)
(* after unescape.  Build commands are lists of up to MaxTokens of the     *)
(* pieces below, separated by one blank.                                   *)
(***************************************************************************)
FixupPieces == {<<"c", "o", "b", "c">>,
                <<"c", "o", "b", "c", " ", "-", "x">>,
                <<"h", ".", "c", "o", "b">>,
                <<"&", "&", " ", "c", "o", "b", "c", " ", "h">>,
                <<"-", "f", "r", "e", "e">>,
                <<"C", "O", "B", "C">>,
                <<"m", "a", "k", "e">>}

FixupCommands ==
  {join_blanks(ws) : ws \in UNION {[1..n -> FixupPieces] : n \in 0..MaxTokens}}

FixupRows ==
  [slug : {S_cobol, <<"c">>}, file : {<<"h", ".", "c", "o", "b">>}, base_image : {<<"b">>},
   install_cmd : {<<>>}, env_path : {<<>>}, build_cmd : FixupCommands,
   run_cmd : {<<"x">>}, hello : {<<"p">>}]

InitFixup ==
  /\ GenIdle
  /\ ExecIdle
  /\ ShIdle
  /\ strOut = <<>>
  /\ strOp = "row"
  /\ str \in FixupRows

\* strOut.threw: substr raised std::out_of_range
ApplyFixups ==
  /\ strOp = "row"
  /\ strOut' = apply_fixups(str)
  /\ strOp' = "fixed"
  /\ UNCHANGED <<str, genVars, execVars, shVars>>

NextFixup == ApplyFixups

SpecFixup == InitFixup /\ [][NextFixup]_vars

(***************************************************************************)
(* The launcher: bash running the run.sh the generator wrote for a row.    *)
(* The script is the text process_line composed, read line by line; each   *)
(* line is one of the statements below (leading blanks set aside).  The    *)
(* IMG line holds the slug as the manifest gave it, so it is read as bash  *)
(* reads it: a list of simple commands separated by the semicolons that    *)
(* stand outside double quotes.                                            *)
(***************************************************************************)
L_set == <<"s", "e", "t", " ", "-", "e", "u", "o", " ", "p", "i", "p", "e", "f", "a", "i", "l">>
L_img == <<"I", "M", "G", "=">>
L_platform == <<"P", "L", "A", "T", "F", "O", "R", "M", "=", DQ, "$", "{", "P", "O", "L", "Y", "G", "L", "O", "T", "_", "P", "L", "A", "T", "F", "O", "R", "M", ":", "-", "}", DQ>>
L_if == <<"i", "f", " ", "[", " ", "-", "n", " ", DQ, "$", "P", "L", "A", "T", "F", "O", "R", "M", DQ, " ", "]", ";", " ", "t", "h", "e", "n">>
L_build_platform == <<"d", "o", "c", "k", "e", "r", " ", "b", "u", "i", "l", "d", " ", "-", "-", "p", "l", "a", "t", "f", "o", "r", "m", " ", DQ, "$", "P", "L", "A", "T", "F", "O", "R", "M", DQ, " ", "-", "t", " ", DQ, "$", "I", "M", "G", DQ, " ", ".">>
L_run_platform == <<"d", "o", "c", "k", "e", "r", " ", "r", "u", "n", " ", "-", "-", "r", "m", " ", "-", "-", "p", "l", "a", "t", "f", "o", "r", "m", " ", DQ, "$", "P", "L", "A", "T", "F", "O", "R", "M", DQ, " ", DQ, "$", "I", "M", "G", DQ>>
L_else == <<"e", "l", "s", "e">>
L_build == <<"d", "o", "c", "k", "e", "r", " ", "b", "u", "i", "l", "d", " ", "-", "t", " ", DQ, "$", "I", "M", "G", DQ, " ", ".">>
L_run == <<"d", "o", "c", "k", "e", "r", " ", "r", "u", "n", " ", "-", "-", "r", "m", " ", DQ, "$", "I", "M", "G", DQ>>
L_fi == <<"f", "i">>
L_exit == <<"e", "x", "i", "t">>

\* the text cut at its line ends
sh_lines(text) ==
  LET ends   == {i \in 1..Len(text) : text[i] = NL}
                  \cup (IF text # <<>> /\ text[Len(text)] # NL
                        THEN {Len(text) + 1} ELSE {})
      nth(k) == CHOOSE e \in ends : Cardinality({x \in ends : x < e}) = k - 1
  IN  [k \in 1..Cardinality(ends) |->
         SubSeq(text, IF k = 1 THEN 1 ELSE nth(k - 1) + 1, nth(k) - 1)]

\* the simple commands of a line: cut at each ';' outside double quotes
RECURSIVE sh_commands_loop(_, _, _, _, _)
sh_commands_loop(line, i, cur, out, in_double) ==
  IF i > Len(line) THEN Append(out, cur)
  ELSE IF line[i] = DQ
       THEN sh_commands_loop(line, i + 1, Append(cur, DQ), out, ~in_double)
  ELSE IF line[i] = ";" /\ ~in_double
       THEN sh_commands_loop(line, i + 1, <<>>, Append(out, cur), in_double)
  ELSE sh_commands_loop(line, i + 1, Append(cur, line[i]), out, in_double)

sh_commands(line) == sh_commands_loop(line, 1, <<>>, <<>>, FALSE)

\* quote removal
sh_unquote(w) == SelectSeq(w, LAMBDA c : c # DQ)

\* the shell leaves with the given status
sh_exit(st, code) == [st EXCEPT !.done = TRUE, !.exit = code]

\* the status of a command that just ran: set -e ends the shell on a failure
sh_after(st, code) ==
  IF code # 0 /\ st.errexit THEN sh_exit([st EXCEPT !.last = code], code)
  ELSE [st EXCEPT !.last = code]

\* one simple command of the IMG line: an assignment to IMG, the exit
\* builtin, nothing at all, or a word bash finds no command for (127)
sh_simple(st, cmd) ==
  Only({IF st.done \/ w = <<>> THEN st
        ELSE IF starts_with(w, L_img)
        THEN [st EXCEPT !.vars = ("IMG" :> sh_unquote(substr_from(w, Len(L_img))))
                                   @@ @,
                        !.last = 0]
        ELSE IF w = L_exit THEN sh_exit(st, st.last)
        ELSE sh_after(st, 127) : w \in {trim(cmd)}})

RECURSIVE sh_run_commands(_, _, _)
sh_run_commands(st, cmds, i) ==
  IF i > Len(cmds) THEN st
  ELSE sh_run_commands(sh_simple(st, cmds[i]), cmds, i + 1)

sh_line == IF sh.pc >= 1 /\ sh.pc <= Len(script) THEN trim(script[sh.pc])
           ELSE <<>>

sh_running == ~sh.done /\ sh.pc >= 1 /\ sh.pc <= Len(script)

sh_var(st, name) == IF name \in DOMAIN st.vars THEN st.vars[name] ELSE <<>>

\* the line index of the first line equal to l after line i (0: none)
sh_find(l, i) ==
  IF \E k \in (i + 1)..Len(script) : trim(script[k]) = l
  THEN CHOOSE k \in (i + 1)..Len(script) :
         trim(script[k]) = l /\ \A j \in (i + 1)..(k - 1) : trim(script[j]) # l
  ELSE 0

LaunchSlugs == {<<"a">>, <<"p", "y">>, <<DQ, ";", "e", "x", "i", "t", ";", DQ>>}

PlatformEnv == {[set |-> FALSE, value |-> <<>>], [set |-> TRUE, value |-> <<>>],
                [set |-> TRUE, value |-> <<"p">>]}

DockerExits == {0, 1}

row_with_slug(slug) == <<slug, OneRowFile, <<"b">>, <<>>, <<"x">>, <<"p">>>>

InitLaunch ==
  /\ GenIdle
  /\ StrIdle
  /\ ExecIdle
  /\ \E slug \in LaunchSlugs, e \in PlatformEnv, b \in DockerExits,
        r \in DockerExits :
       /\ \E st \in {one_row_run(row_with_slug(slug))} :
            script = sh_lines(st.files[Path(slug, N_run_sh)])
       /\ world = [slug |-> slug, set |-> e.set, value |-> e.value,
                   build |-> b, run |-> r]
  /\ sh = [ShOff EXCEPT !.pc = 1]

\* "#!/usr/bin/env bash": a comment to the shell
ShComment ==
  /\ sh_running
  /\ sh_line # <<>> /\ sh_line[1] = "#"
  /\ sh' = [sh EXCEPT !.pc = @ + 1]
  /\ UNCHANGED <<script, world, genVars, strVars, execVars>>

\* set -euo pipefail
ShSet ==
  /\ sh_running
  /\ sh_line = L_set
  /\ sh' = [sh EXCEPT !.pc = @ + 1, !.errexit = TRUE, !.last = 0]
  /\ UNCHANGED <<script, world, genVars, strVars, execVars>>

\* IMG="hello-<slug>"
ShImg ==
  /\ sh_running
  /\ starts_with(sh_line, L_img)
  /\ \E st \in {sh_run_commands(sh, sh_commands(script[sh.pc]), 1)} :
       sh' = [st EXCEPT !.pc = @ + 1]
  /\ UNCHANGED <<script, world, genVars, strVars, execVars>>

\* PLATFORM="${POLYGLOT_PLATFORM:-}": empty when unset or null
ShPlatform ==
  /\ sh_running
  /\ sh_line = L_platform
  /\ sh' = [sh EXCEPT !.pc = @ + 1, !.last = 0,
                      !.vars = ("PLATFORM" :> (IF world.set THEN world.value
                                               ELSE <<>>)) @@ @]
  /\ UNCHANGED <<script, world, genVars, strVars, execVars>>

\* if [ -n "$PLATFORM" ]; then
ShIf ==
  /\ sh_running
  /\ sh_line = L_if
  /\ sh' = IF sh_var(sh, "PLATFORM") # <<>>
           THEN [sh EXCEPT !.pc = @ + 1, !.last = 0]
           ELSE [sh EXCEPT !.pc = sh_find(L_else, sh.pc) + 1, !.last = 1]
  /\ UNCHANGED <<script, world, genVars, strVars, execVars>>

\* else, reached at the end of the first branch
ShElse ==
  /\ sh_running
  /\ sh_line = L_else
  /\ sh' = [sh EXCEPT !.pc = sh_find(L_fi, sh.pc)]
  /\ UNCHANGED <<script, world, genVars, strVars, execVars>>

ShFi ==
  /\ sh_running
  /\ sh_line = L_fi
  /\ sh' = [sh EXCEPT !.pc = @ + 1]
  /\ UNCHANGED <<script, world, genVars, strVars, execVars>>

\* a docker command: what was run, with which platform and image
docker(st, step, pinned, code) ==
  sh_after([st EXCEPT !.pc = @ + 1,
                      !.calls = Append(@,
                        [step |-> step, image |-> sh_var(st, "IMG"),
                         platform |-> IF pinned THEN <<sh_var(st, "PLATFORM")>>
                                      ELSE <<>>,
                         exit |-> code])],
           code)

DockerBuild ==
  /\ sh_running
  /\ sh_line \in {L_build, L_build_platform}
  /\ sh' = docker(sh, "build", sh_line = L_build_platform, world.build)
  /\ UNCHANGED <<script, world, genVars, strVars, execVars>>

DockerRun ==
  /\ sh_running
  /\ sh_line \in {L_run, L_run_platform}
  /\ sh' = docker(sh, "run", sh_line = L_run_platform, world.run)
  /\ UNCHANGED <<script, world, genVars, strVars, execVars>>

\* the end of the script: the exit status is that of the last command
ShEof ==
  /\ ~sh.done
  /\ sh.pc > Len(script)
  /\ sh' = sh_exit(sh, sh.last)
  /\ UNCHANGED <<script, world, genVars, strVars, execVars>>

NextLaunch ==
  \/ ShComment \/ ShSet \/ ShImg \/ ShPlatform \/ ShIf \/ ShElse \/ ShFi
  \/ DockerBuild \/ DockerRun \/ ShEof

SpecLaunch == InitLaunch /\ [][NextLaunch]_vars

(***************************************************************************)
(* The executor, run_all.sh.  An entry of the languages directory is its   *)
(* name, whether it is a directory, the state of its run.sh ("absent",     *)
(* "plain": present but not executable, "exec") and the exit status        *)
(* ./run.sh gives there.                                                   *)
(***************************************************************************)
EntryNames == <<"a", "b", "c", "d", "e">>

EntryShapes ==
  {[dir |-> FALSE, runsh |-> "absent", exit |-> 127],
   [dir |-> TRUE,  runsh |-> "absent", exit |-> 127],
   [dir |-> TRUE,  runsh |-> "plain",  exit |-> 126],
   [dir |-> TRUE,  runsh |-> "exec",   exit |-> 0],
   [dir |-> TRUE,  runsh |-> "exec",   exit |-> 1],
   [dir |-> TRUE,  runsh |-> "exec",   exit |-> 17]}

FilterLists == {<<>>, <<"a">>, <<"b", "a">>, <<"a", "a">>, <<"z">>, <<"a", "c">>,
                <<"A">>}

\* a comparison with the first filter only
matches_first_filter(name, fs) ==
  fs = <<>> \/ name = fs[1]

matches_filter(name, fs) ==
  fs = <<>> \/ \E k \in 1..Len(fs) : name = fs[k]

RECURSIVE build_langs(_, _, _)
build_langs(es, fs, k) ==
  IF k > Len(es) THEN <<>>
  ELSE IF ~es[k].dir THEN build_langs(es, fs, k + 1)
  ELSE IF ~matches_filter(es[k].name, fs) THEN build_langs(es, fs, k + 1)
  ELSE <<es[k].name>> \o build_langs(es, fs, k + 1)

entry_named(es, name) == es[CHOOSE k \in 1..Len(es) : es[k].name = name]

\* a test for existence in place of the test for the execute permission
exists_test(e) == e.runsh # "absent"

\* [ -x "$run" ]
executable(e) == e.runsh = "exec"

\* (cd "$d" && ./run.sh); status=$?
launch(e) == e.exit

result_line(word, lang, i, n, st) ==
  [word |-> word, lang |-> lang, i |-> i, n |-> n, status |-> st]

InitExec ==
  /\ GenIdle
  /\ StrIdle
  /\ ShIdle
  /\ \E n \in 0..MaxEntries : \E shapes \in [1..n -> EntryShapes] :
       entries = [k \in 1..n |->
                    [name  |-> EntryNames[k], dir |-> shapes[k].dir,
                     runsh |-> shapes[k].runsh, exit |-> shapes[k].exit]]
  /\ filters \in FilterLists
  /\ verbose \in BOOLEAN
  /\ langs = <<>> /\ idx = 0
  /\ passes = <<>> /\ fails = <<>> /\ skips = <<>>
  /\ invoked = <<>> /\ running = <<>> /\ printed = <<>>
  /\ xpc = "list" /\ xstatus = "running"

\* the list of included entries, built before the loop
BuildList ==
  /\ xpc = "list"
  /\ langs' = build_langs(entries, filters, 1)
  /\ idx' = 0
  /\ xpc' = "loop"
  /\ UNCHANGED <<entries, filters, verbose, passes, fails, skips, invoked,
                 running, printed, xstatus>>
  /\ UNCHANGED <<genVars, strVars, shVars>>

\* run.sh is missing or not executable
SkipEntry ==
  /\ xpc = "loop"
  /\ idx < Len(langs)
  /\ ~executable(entry_named(entries, langs[idx + 1]))
  /\ printed' = Append(printed, result_line("SKIP", langs[idx + 1], idx + 1,
                                            Len(langs), 0))
  /\ skips' = Append(skips, langs[idx + 1])
  /\ idx' = idx + 1
  /\ UNCHANGED <<entries, filters, verbose, langs, passes, fails, invoked,
                 running, xpc, xstatus>>
  /\ UNCHANGED <<genVars, strVars, shVars>>

\* errexit left on while the launcher runs
errexit_stays_on == TRUE

\* set +e before the launcher, set -e after status=$?: errexit is off while
\* the launcher runs
errexit_at_launch == FALSE

\* (cd "$d" && ./run.sh) is started; the script waits for it
Launch ==
  /\ xpc = "loop"
  /\ idx < Len(langs)
  /\ executable(entry_named(entries, langs[idx + 1]))
  /\ running = <<>>
  /\ running' = <<langs[idx + 1]>>
  /\ UNCHANGED <<entries, filters, verbose, langs, idx, passes, fails, skips,
                 invoked, printed, xpc, xstatus>>
  /\ UNCHANGED <<genVars, strVars, shVars>>

\* the launcher exits and the entry goes to the Pass or to the Fail list;
\* word is what the result line shows for an exit status of 0
RunEntry(word) ==
  /\ xpc = "loop"
  /\ idx < Len(langs)
  /\ running = <<langs[idx + 1]>>
  /\ running' = <<>>
  /\ \E st \in {launch(entry_named(entries, langs[idx + 1]))} :
       /\ invoked' = Append(invoked, [lang |-> langs[idx + 1], status |-> st])
       /\ IF st # 0 /\ errexit_at_launch
          THEN /\ xpc' = "aborted"
               /\ xstatus' = "exit1"
               /\ UNCHANGED <<printed, passes, fails, idx>>
          ELSE /\ IF st = 0
                  THEN /\ printed' = Append(printed,
                                       result_line(word, langs[idx + 1],
                                                   idx + 1, Len(langs), st))
                       /\ passes' = Append(passes, langs[idx + 1])
                       /\ UNCHANGED fails
                  ELSE /\ printed' = Append(printed,
                                       result_line("FAIL", langs[idx + 1],
                                                   idx + 1, Len(langs), st))
                       /\ fails' = Append(fails, langs[idx + 1])
                       /\ UNCHANGED passes
               /\ idx' = idx + 1
               /\ UNCHANGED <<xpc, xstatus>>
  /\ UNCHANGED <<entries, filters, verbose, langs, skips>>
  /\ UNCHANGED <<genVars, strVars, shVars>>

\* verbose mode: the launcher's output goes to the terminal
RunVerbose == verbose /\ RunEntry("PASS")

\* pretty mode: the output is captured and its last line is shown
RunPretty == ~verbose /\ RunEntry("hello")

\* the summary and the exit status
Summary ==
  /\ xpc = "loop"
  /\ idx >= Len(langs)
  /\ printed' = Append(printed, result_line("Summary", "", Len(passes),
                                            Len(fails), Len(skips)))
  /\ xstatus' = IF Len(fails) = 0 THEN "exit0" ELSE "exit1"
  /\ xpc' = "done"
  /\ UNCHANGED <<entries, filters, verbose, langs, idx, passes, fails, skips,
                 invoked, running>>
  /\ UNCHANGED <<genVars, strVars, shVars>>

NextExec ==
  BuildList \/ SkipEntry \/ Launch \/ RunVerbose \/ RunPretty \/ Summary

SpecExec == InitExec /\ [][NextExec]_vars

\* the script goes on as long as it has a step to take, and every launcher
\* that was started exits
FairFilterLists == {<<>>, <<"b", "a">>}

InitExecFair == InitExec /\ filters \in FairFilterLists

SpecExecFair == InitExecFair /\ [][NextExec]_vars /\ WF_vars(NextExec)

(***************************************************************************)
(* The entries of a manifest: for every row that passes validation, the    *)
(* LangSpec after the fixups and the effective file name.                  *)
(***************************************************************************)
entry_of_fixed(fixed) ==
  IF fixed.threw THEN <<>>
  ELSE <<[slug |-> fixed.spec.slug, spec |-> fixed.spec,
          eff  |-> effective_file_of(fixed.spec.file, fixed.spec.build_cmd,
                                     fixed.spec.run_cmd)]>>

entry_of_row(raw) ==
  IF malformed(raw) THEN <<>>
  ELSE Only({entry_of_fixed(fixed) :
               fixed \in {apply_fixups(u) : u \in {unescape_fields(raw)}}})

entry_of_line(hd, line) ==
  IF is_blank_or_comment(line) THEN <<>>
  ELSE Only({entry_of_row(raw) :
               raw \in {parse_fields(hd, cols) : cols \in {split_tabs(line)}}})

RECURSIVE entries_from(_, _, _)
entries_from(hd, lines, i) ==
  IF i > Len(lines) THEN <<>>
  ELSE entry_of_line(hd, lines[i]) \o entries_from(hd, lines, i + 1)

entries_of(lines) ==
  IF lines = <<>> THEN <<>>
  ELSE Only({entries_from(hd, lines, IF hd.has_header THEN 2 ELSE 1) :
               hd \in {detect_header(lines[1])}})

GeneratedNames == {N_dockerignore, N_Dockerfile, N_run_sh}

\* the last entry of es with the given slug
last_entry(es, slug) ==
  es[CHOOSE i \in 1..Len(es) :
       es[i].slug = slug /\ \A j \in (i + 1)..Len(es) : es[j].slug # slug]

\* several rows share the slug, or a row of the slug names its source file
\* like a generated file (up to case)
colliding(es, slug) ==
  \/ Cardinality({i \in 1..Len(es) : es[i].slug = slug}) >= 2
  \/ \E i \in 1..Len(es) :
       /\ es[i].slug = slug
       /\ lower(es[i].eff) \in {lower(n) : n \in GeneratedNames}

Ended == pc = "exit"
EndedOk == pc = "exit" /\ status = "exit0"
SecondPlainRun == pc = "exit" /\ runNo >= 2 /\ ~force

generated_written(log, slugs) ==
  {i \in 1..Len(log) :
     /\ log[i].op = "write"
     /\ log[i].slug \in slugs
     /\ log[i].names \cap GeneratedNames # {}}

(***************************************************************************)
(* C1.  Idempotence as claimed: on the second of two runs without --force  *)
(* nothing is written to a .dockerignore, Dockerfile or run.sh, and the    *)
(* tree is what the first run left, for every manifest.                    *)
(***************************************************************************)
C1_NoGeneratedWrite ==
  SecondPlainRun =>
    /\ generated_written(tree.log, tree.dirs) = {}
    /\ SameTree(tree, prev)

(***************************************************************************)
(* C1, amended.  After the second of two runs without --force the tree is  *)
(* what the first run left, for every manifest; and the second run writes  *)
(* to a .dockerignore, Dockerfile or run.sh only in a directory whose slug *)
(* is shared by several rows or has a row whose effective source file name *)
(* equals a generated file name up to case.                                *)
(***************************************************************************)
C1_Idempotent ==
  SecondPlainRun =>
    /\ SameTree(tree, prev)
    /\ \A es \in {entries_of(manifest)} :
         \A i \in generated_written(tree.log, tree.dirs) :
           colliding(es, tree.log[i].slug)

C1_Witness ==
  /\ SecondPlainRun
  /\ status = "exit0"
  /\ \E i \in 1..Len(tree.log) :
       /\ tree.log[i].op = "write"
       /\ ~colliding(entries_of(manifest), tree.log[i].slug)
       /\ Path(tree.log[i].slug, N_Dockerfile) \in DOMAIN tree.files

(***************************************************************************)
(* C2.  After a completed run the Dockerfile, the run.sh and the           *)
(* .dockerignore of every entry equal the content composed from the        *)
(* (last) row of that slug, whatever the directory held before.            *)
(***************************************************************************)
C2_GeneratedFilesCurrent ==
  EndedOk =>
    \A es \in {entries_of(manifest)} :
      \A k \in 1..Len(es) :
        \A e \in {last_entry(es, es[k].slug)} :
          /\ read_file_or_empty(tree, Path(e.slug, N_Dockerfile))
               = dockerfile_of(e.spec, e.eff)
          /\ read_file_or_empty(tree, Path(e.slug, N_run_sh)) = runsh_of(e.spec)
          /\ read_file_or_empty(tree, Path(e.slug, N_dockerignore))
               = T_dockerignore

(***************************************************************************)
(* C3.  Row validation as claimed: the run leaves the tree, and logs what  *)
(* it would with every row whose slug, file, base_image or run_cmd is      *)
(* empty after trimming removed from the manifest; each such row is        *)
(* answered by one warning naming the line.                                *)
(***************************************************************************)
claim_bad_line(hd, line) ==
  /\ ~is_blank_or_comment(line)
  /\ \E r \in {parse_fields(hd, split_tabs(line))} :
       r.slug = <<>> \/ r.file = <<>> \/ r.base_image = <<>> \/ r.run_cmd = <<>>

RECURSIVE without_bad(_, _, _, _)
without_bad(hd, lines, i, from) ==
  IF i > Len(lines) THEN <<>>
  ELSE (IF i >= from /\ claim_bad_line(hd, lines[i]) THEN <<>> ELSE <<lines[i]>>)
       \o without_bad(hd, lines, i + 1, from)

RECURSIVE bad_lines(_, _, _)
bad_lines(hd, lines, i) ==
  IF i > Len(lines) THEN <<>>
  ELSE (IF claim_bad_line(hd, lines[i]) THEN <<lines[i]>> ELSE <<>>)
       \o bad_lines(hd, lines, i + 1)

is_warn(e) == e.op = "warn"
not_warn(e) == e.op # "warn"
warned(log) == [i \in 1..Len(SelectSeq(log, is_warn)) |->
                  SelectSeq(log, is_warn)[i].slug]

FirstDataLine == IF hdr.has_header THEN 2 ELSE 1

\* the run with the bad rows from line `from` on removed from the manifest
as_if_absent(from) ==
  \A r \in {run_main(StartTree, force, without_bad(hdr, manifest, 1, from))} :
    /\ SameTree(tree, r)
    /\ tree.threw = r.threw
    /\ SelectSeq(tree.log, not_warn) = SelectSeq(r.log, not_warn)
    /\ status = "exit0" => warned(tree.log) = bad_lines(hdr, manifest, FirstDataLine)

C4_NeverAborts == tree.ro = {} => status # "exit1"

(***************************************************************************)
(* C5.  A header line that follows only blank and comment lines makes the  *)
(* manifest one with a header, and no entry is made from the header line.  *)
(***************************************************************************)
RECURSIVE first_significant(_, _)
first_significant(lines, i) ==
  IF i > Len(lines) THEN 0
  ELSE IF is_blank_or_comment(lines[i]) THEN first_significant(lines, i + 1)
  ELSE i

C5_HeaderAfterComments ==
  \A k \in {first_significant(manifest, 1)} :
    (pc # "start" /\ k > 0 /\ looks_like_header(split_tabs(manifest[k]))) =>
      /\ hdr.has_header
      /\ trim(split_tabs(manifest[k])[1]) \notin tree.dirs

(***************************************************************************)
(* C6.  Header/positional equivalence as claimed: a manifest with a header *)
(* naming the six columns in any order leaves the tree that the            *)
(* header-less manifest of the same rows in the canonical order leaves.    *)
(***************************************************************************)
canonical_outcome ==
  run_main(StartTree, force, render(input.rows, "plain", Canonical))

C6_AnyPermutation ==
  (Ended /\ input.layout = "header") => SameTree(tree, canonical_outcome)

(***************************************************************************)
(* C6, amended.  The two manifests leave the same tree when the header     *)
(* keeps slug as its first column (the other five columns in any order)    *)
(* and the slug of the first row is not the word "slug" in any case.       *)
(***************************************************************************)
slug_column_first == input.perm[1] = 1

first_row_like_header ==
  input.rows # <<>> /\ looks_like_header(input.rows[1])

C6_SlugFirst ==
  (Ended /\ input.layout = "header" /\ slug_column_first
         /\ ~first_row_like_header)
    => SameTree(tree, canonical_outcome)

\* a header with slug first and the other columns out of order, and two rows
C6_Witness ==
  /\ Ended
  /\ input.layout = "header"
  /\ slug_column_first
  /\ input.perm # Canonical
  /\ ~first_row_like_header
  /\ Len(input.rows) = 2
  /\ SameTree(tree, canonical_outcome)
  /\ DOMAIN tree.files # {}

(***************************************************************************)
(* C7.  Escape handling as claimed: for every hello field, the source file *)
(* holds the field with each of the six sequences \n \t \r \\ \" \'        *)
(* replaced by the character it names, in one pass from left to right,     *)
(* every other backslash left where it is.                                 *)
(***************************************************************************)
C7_Named ==
  ("n" :> NL) @@ ("t" :> TAB) @@ ("r" :> CR) @@ (BSL :> BSL) @@ (DQ :> DQ)
  @@ (SQ :> SQ)

RECURSIVE C7_decoded(_)
C7_decoded(s) ==
  IF s = <<>> THEN <<>>
  ELSE IF Len(s) >= 2 /\ s[1] = BSL /\ s[2] \in DOMAIN C7_Named
       THEN <<C7_Named[s[2]]>> \o C7_decoded(SubSeq(s, 3, Len(s)))
       ELSE <<s[1]>> \o C7_decoded(Tail(s))

\* the text, closed by a newline when it does not end with one
C7_as_file(text) ==
  IF text # <<>> /\ text[Len(text)] = NL THEN text ELSE text \o <<NL>>

C7_EveryField ==
  strOp = "source" => strOut = C7_as_file(C7_decoded(str))

(***************************************************************************)
(* C7, amended.  The same, for every hello field that does not begin with  *)
(* the three bytes of a UTF-8 byte-order mark (which the generator removes *)
(* from the front of every field).                                         *)
(***************************************************************************)
C7_begins_with_bom == Len(str) >= 3 /\ SubSeq(str, 1, 3) = <<"EF", "BB", "BF">>

C7_FieldWithoutBom ==
  (strOp = "source" /\ ~C7_begins_with_bom)
    => strOut = C7_as_file(C7_decoded(str))

\* the field \\n gave a backslash and the letter n
C7_Witness ==
  /\ strOp = "source"
  /\ str = <<BSL, BSL, "n">>
  /\ strOut = <<BSL, "n", NL>>

(***************************************************************************)
(* C8.  file = "hello.txt", no build_cmd, run_cmd = "run ./main.py": the   *)
(* source file written and the file the recipe copies is main.py.          *)
(***************************************************************************)
N_hello_txt == <<"h", "e", "l", "l", "o", ".", "t", "x", "t">>
N_main_py == <<"m", "a", "i", "n", ".", "p", "y">>

is_c8_row(e) ==
  /\ e.spec.file = N_hello_txt
  /\ e.spec.build_cmd = <<>>
  /\ e.spec.run_cmd = <<"r", "u", "n", " ", ".", "/">> \o N_main_py

e_source_ok(e, name) ==
  /\ read_file_or_empty(tree, Path(e.slug, name)) = hello_content_of(e.spec.hello)
  /\ read_file_or_empty(tree, Path(e.slug, N_Dockerfile)) = dockerfile_of(e.spec, name)

\* every entry of the C8 row has its source in `name`, copied by the recipe
c8_rows_generate(name, other) ==
  EndedOk =>
    \A es \in {entries_of(manifest)} :
      \A k \in 1..Len(es) :
        is_c8_row(es[k]) =>
          /\ e_source_ok(es[k], name)
          /\ Path(es[k].slug, other) \notin DOMAIN tree.files

C8_MainPy == c8_rows_generate(N_main_py, N_hello_txt)

(***************************************************************************)
(* C8, amended.  For that row the effective file name stays hello.txt: no  *)
(* token of run_cmd ends with ".txt", the extension of the file field.     *)
(***************************************************************************)
C8_HelloTxt == c8_rows_generate(N_hello_txt, N_main_py)

C8_Witness ==
  /\ EndedOk
  /\ \E k \in 1..Len(entries_of(manifest)) : is_c8_row(entries_of(manifest)[k])

(***************************************************************************)
(* C9.  JSON escaping of run commands: the last line of the Dockerfile is  *)
(* CMD ["sh", "-c", "<body>"] on one line, the body is a well-formed JSON  *)
(* string body, and decoding it gives the run command of the row.          *)
(***************************************************************************)
C9_Simple ==
  ("n" :> NL) @@ ("t" :> TAB) @@ ("r" :> CR) @@ ("f" :> FF) @@ (BSL :> BSL)
  @@ (DQ :> DQ) @@ ("/" :> "/")

C9_hex_value(c) ==
  CHOOSE v \in 0..15 : c = <<"0","1","2","3","4","5","6","7","8","9",
                             "A","B","C","D","E","F">>[v + 1]

C9_is_hex(c) ==
  c \in {"0","1","2","3","4","5","6","7","8","9","A","B","C","D","E","F"}

C9_code(b) ==
  C9_hex_value(b[3]) * 4096 + C9_hex_value(b[4]) * 256
  + C9_hex_value(b[5]) * 16 + C9_hex_value(b[6])

C9_char_of(code) ==
  CHOOSE c \in {TAB, NL, FF, CR} :
    code = (IF c = TAB THEN 9 ELSE IF c = NL THEN 10 ELSE IF c = FF THEN 12
            ELSE 13)

C9_bad == [ok |-> FALSE, text |-> <<>>]

C9_cons(c, d) == IF d.ok THEN [ok |-> TRUE, text |-> <<c>> \o d.text] ELSE d

\* the JSON string with the given body, decoded; not ok when the body is
\* not well formed: a bare quote, a bare control character, a broken escape
RECURSIVE C9_decode(_)
C9_decode(b) ==
  IF b = <<>> THEN [ok |-> TRUE, text |-> <<>>]
  ELSE IF b[1] = BSL
       THEN IF Len(b) >= 2 /\ b[2] \in DOMAIN C9_Simple
            THEN C9_cons(C9_Simple[b[2]], C9_decode(SubSeq(b, 3, Len(b))))
            ELSE IF /\ Len(b) >= 6
                    /\ b[2] = "u"
                    /\ \A k \in 3..6 : C9_is_hex(b[k])
                    /\ C9_code(b) \in {9, 10, 12, 13}
                 THEN C9_cons(C9_char_of(C9_code(b)),
                              C9_decode(SubSeq(b, 7, Len(b))))
                 ELSE C9_bad
       ELSE IF b[1] \in {DQ, TAB, NL, FF, CR} THEN C9_bad
            ELSE C9_cons(b[1], C9_decode(Tail(b)))

\* the last line of a text that ends with a newline
C9_last_line(text) ==
  LET n == Len(text) - 1
      from == IF \E k \in 1..n : text[k] = NL
              THEN 1 + CHOOSE k \in 1..n :
                         text[k] = NL /\ \A j \in (k + 1)..n : text[j] # NL
              ELSE 1
  IN  SubSeq(text, from, n)

C9_head == <<"C","M","D"," ","[",DQ,"s","h",DQ,","," ",DQ,"-","c",DQ,",",
             " ",DQ>>

C9_is_directive(line) ==
  /\ Len(line) >= Len(C9_head) + 2
  /\ SubSeq(line, 1, Len(C9_head)) = C9_head
  /\ SubSeq(line, Len(line) - 1, Len(line)) = <<DQ, "]">>

C9_body(line) == SubSeq(line, Len(C9_head) + 1, Len(line) - 2)

\* the run command of the row: the field trimmed, then unescaped
C9_run_cmd == strip_utf8_bom(unescape(trim(str)))

C9_RoundTrip ==
  strOp = "recipe" =>
    /\ strOut # <<>>
    /\ strOut[Len(strOut)] = NL
    /\ C9_is_directive(C9_last_line(strOut))
    /\ C9_decode(C9_body(C9_last_line(strOut))).ok
    /\ C9_decode(C9_body(C9_last_line(strOut))).text = C9_run_cmd

\* a run command with a double quote and a newline in it
C9_Witness ==
  /\ strOp = "recipe"
  /\ C9_run_cmd = <<DQ, NL>>
  /\ C9_body(C9_last_line(strOut)) = <<BSL, DQ, BSL, "n">>

(***************************************************************************)
(* C10.  Executor classification: in pretty and in verbose mode, an        *)
(* included entry is skipped, and its launcher never run, iff its run.sh   *)
(* is absent or not executable; else it passes iff the launcher exits 0    *)
(* and fails iff it exits non-zero; the executor exits 0 iff the Fail      *)
(* list is empty.                                                          *)
(***************************************************************************)
C10_in(list, name) == \E k \in 1..Len(list) : list[k] = name

C10_launched(name) == \E k \in 1..Len(invoked) : invoked[k].lang = name

C10_Classification ==
  /\ xpc \in {"loop", "done"} =>
       \A k \in 1..idx :
         LET e == entry_named(entries, langs[k])
             usable == e.runsh = "exec"
         IN  /\ C10_in(skips, e.name) <=> ~usable
             /\ C10_launched(e.name) <=> usable
             /\ C10_in(passes, e.name) <=> (usable /\ e.exit = 0)
             /\ C10_in(fails, e.name) <=> (usable /\ e.exit # 0)
  /\ xpc = "done" => (xstatus = "exit0" <=> fails = <<>>)
  /\ xpc = "done" => xstatus \in {"exit0", "exit1"}

\* a finished pretty run with a skipped and a passed entry, exit status 0
C10_Witness ==
  /\ xpc = "done"
  /\ ~verbose
  /\ Len(skips) = 1
  /\ Len(passes) = 1
  /\ fails = <<>>
  /\ xstatus = "exit0"

(***************************************************************************)
(* C11.  Filtering: with filters, the executor processes exactly the       *)
(* subdirectories whose name equals one of them (exactly, case-sensitive), *)
(* each once, in enumeration order; without filters, every subdirectory.   *)
(* A filter that names no directory is ignored and is no failure.          *)
(***************************************************************************)
C11_wanted(e) ==
  e.dir /\ (filters = <<>> \/ e.name \in {filters[k] : k \in 1..Len(filters)})

C11_names_lang(es) == [k \in 1..Len(es) |-> es[k].name]

C11_names(ls) == [k \in 1..Len(ls) |-> ls[k].lang]

\* the entries of the result lines printed for entries, in order
C11_is_entry_line(l) == l.word # "Summary"

C11_processed == C11_names(SelectSeq(printed, C11_is_entry_line))

C11_names_of_wanted == C11_names_lang(SelectSeq(entries, C11_wanted))

C11_names_nothing ==
  \A k \in 1..Len(entries) : ~C11_wanted(entries[k])

C11_WitnessOrder ==
  /\ xpc = "done"
  /\ filters = <<"b", "a">>
  /\ C11_processed = <<"a", "b">>

(***************************************************************************)
(* C12.  The batch runs to completion: a Skip or a Fail never stops the    *)
(* executor.  Each included entry is processed once, in enumeration order, *)
(* one launcher at a time, and ends up in exactly one of the Pass, Fail    *)
(* and Skip lists (the three lengths always sum to the number of entries   *)
(* processed so far); when every launcher exits, the summary is eventually *)
(* printed.                                                                *)
(***************************************************************************)
C12_lists == passes \o fails \o skips

C12_Accounting ==
  /\ xpc # "aborted"
  /\ Len(running) <= 1
  /\ xpc \in {"loop", "done"} =>
       /\ Len(passes) + Len(fails) + Len(skips) = idx
       /\ idx <= Len(langs)
       /\ \A k \in 1..idx :
            Cardinality({j \in 1..Len(C12_lists) : C12_lists[j] = langs[k]}) = 1
       /\ C11_processed = SubSeq(langs, 1, idx)
       /\ \A j, k \in 1..Len(invoked) :
            invoked[j].lang = invoked[k].lang => j = k
       /\ running # <<>> => running = <<langs[idx + 1]>>

C12_SummaryPrinted ==
  /\ xpc = "done"
  /\ printed # <<>>
  /\ printed[Len(printed)].word = "Summary"
  /\ idx = Len(langs)

C12_Completes == []C12_Accounting /\ <>C12_SummaryPrinted

\* a failed and a skipped entry, then a passed one, and the summary
C12_Witness ==
  /\ C12_SummaryPrinted
  /\ fails = <<"a">>
  /\ skips = <<"b">>
  /\ passes = <<"c">>

(***************************************************************************)
(* C13.  Compiler exit status: 2 without a manifest argument or when the   *)
(* manifest cannot be opened, 1 when an exception reaches the top level,   *)
(* 0 in every other case; rows skipped as malformed do not change it.      *)
(***************************************************************************)
C13_only_skipped ==
  \A i \in FirstDataLine..Len(manifest) :
    is_blank_or_comment(manifest[i]) \/ claim_bad_line(hdr, manifest[i])

C13_ExitStatus ==
  Ended =>
    /\ status \in {"exit0", "exit1", "exit2"}
    /\ status = "exit2" <=> input.arg \in {"unreadable", "none"}
    /\ status = "exit1" <=> tree.threw
    /\ (input.arg = "file" /\ C13_only_skipped) => status = "exit0"
    /\ (status = "exit1" /\ tree.ro = {}) =>
          \E i \in 1..Len(manifest) : ~claim_bad_line(hdr, manifest[i])

\* a run that skipped a malformed row, generated an entry and exited 0
C13_Witness ==
  /\ Ended
  /\ status = "exit0"
  /\ warned(tree.log) # <<>>
  /\ \E k \in 1..Len(tree.log) : tree.log[k].op = "ok"

\* a run without a manifest argument exited 2
C13_WitnessUsage == Ended /\ status = "exit2" /\ input.arg = "none"

(***************************************************************************)
(* C14.  Duplicate slugs: when several valid rows share a slug, after the  *)
(* run the Dockerfile, the run.sh and the source file in the directory of  *)
(* the slug are those composed from the last of these rows.                *)
(***************************************************************************)
C14_shared(es, slug) == Cardinality({i \in 1..Len(es) : es[i].slug = slug}) >= 2

\* the tree that processing the row of e alone leaves
C14_alone(e) == write_entry(StartTree, force, e.spec, e.eff)

C14_from_last_row(e) ==
  \A alone \in {C14_alone(e)} :
    \A name \in {N_Dockerfile, N_run_sh, e.eff} :
      /\ Path(e.slug, name) \in DOMAIN tree.files
      /\ tree.files[Path(e.slug, name)] = alone.files[Path(e.slug, name)]

C14_is_ok(ev) == ev.op = "ok"

C15_last_line ==
  IF pc \in {"loop", "exit"} /\ input.arg = "file" /\ ~tree.threw
     /\ lineNo - 1 >= FirstDataLine /\ lineNo - 1 <= Len(manifest)
  THEN lineNo - 1 ELSE 0

C15_expected(hello) ==
  IF hello # <<>> /\ hello[Len(hello)] = NL THEN hello ELSE hello \o <<NL>>

C16_unmarked_outcome ==
  run_main(StartTree, force, render(input.rows, unmarked(input.layout),
                                    input.perm))

C16_BomIgnored ==
  (Ended /\ input.layout \in BomLayouts) =>
    /\ SameTree(tree, C16_unmarked_outcome)
    /\ input.layout = "bom_header" =>
         (hdr.has_header /\ S_slug \notin tree.dirs)

(***************************************************************************)
(* C17.  Filename resolution rule: the name starts as the trailing path    *)
(* component of the file field; if build_cmd holds a token (split at       *)
(* blanks, quotes respected, trailing ; , ) ] CR LF stripped) that ends    *)
(* with the extension of that name, the trailing path component of the     *)
(* last such token is the name; run_cmd is scanned the same way only when  *)
(* build_cmd has no such token; when neither has one, or the name has no   *)
(* extension, the name from the file field is kept.  The result holds no   *)
(* directory component.                                                    *)
(***************************************************************************)
\* what follows the last "/" of s
C17_component(s) ==
  CHOOSE t \in {SubSeq(s, i, Len(s)) : i \in 1..(Len(s) + 1)} :
    /\ \A j \in 1..Len(t) : t[j] # "/"
    /\ Len(t) = Len(s) \/ s[Len(s) - Len(t)] = "/"

\* t without the punctuation at its end
C17_stripped(t) ==
  CHOOSE p \in {SubSeq(t, 1, n) : n \in 0..Len(t)} :
    /\ p = <<>> \/ p[Len(p)] \notin {";", ",", ")", "]", CR, NL}
    /\ \A j \in (Len(p) + 1)..Len(t) : t[j] \in {";", ",", ")", "]", CR, NL}

\* the last "." of the name and what follows it
C17_extension(name) ==
  IF \A j \in 1..Len(name) : name[j] # "." THEN <<>>
  ELSE CHOOSE e \in {SubSeq(name, i, Len(name)) : i \in 1..Len(name)} :
         e[1] = "." /\ \A j \in 2..Len(e) : e[j] # "."

C17_has_ext(tok, ext) ==
  /\ Len(tok) >= Len(ext)
  /\ SubSeq(tok, Len(tok) - Len(ext) + 1, Len(tok)) = ext

\* the tokens of cmd that end with ext, in the order of cmd
C17_hits(cmd, ext) ==
  LET toks == shellish_split(cmd)
      cut  == [i \in 1..Len(toks) |-> C17_stripped(toks[i])]
  IN  SelectSeq(cut, LAMBDA t : C17_has_ext(t, ext))

C17_rule(file, build_cmd, run_cmd) ==
  LET base == C17_component(file)
      ext  == C17_extension(base)
      inb  == C17_hits(build_cmd, ext)
      inr  == C17_hits(run_cmd, ext)
  IN  IF ext = <<>> THEN base
      ELSE IF inb # <<>> THEN C17_component(inb[Len(inb)])
      ELSE IF inr # <<>> THEN C17_component(inr[Len(inr)])
      ELSE base

C17_ResolutionRule ==
  strOp = "resolved" =>
    /\ strOut = C17_rule(str.file, str.build_cmd, str.run_cmd)
    /\ \A j \in 1..Len(strOut) : strOut[j] # "/"

\* build_cmd has no token with the extension, run_cmd has two: the name is
\* the trailing component of the second, without its punctuation
C17_Witness ==
  /\ strOp = "resolved"
  /\ str.file = <<".", "/", "s", "/", "a", ".", "c">>
  /\ str.build_cmd = <<"-", "o", " ", "h", ".", "c", "/">>
  /\ str.run_cmd = <<"b", ".", "c", " ", ".", "/", "d", "/", "e", ".", "c", ";">>
  /\ strOut = <<"e", ".", "c">>

\* build_cmd and run_cmd both have a token with the extension: build_cmd wins
C17_WitnessBuild ==
  /\ strOp = "resolved"
  /\ str.file = <<"a", ".", "c">>
  /\ str.build_cmd = <<"-", "o", " ", SQ, "f", " ", "g", ".", "c", SQ>>
  /\ str.run_cmd = <<"b", ".", "c">>
  /\ strOut = <<"f", " ", "g", ".", "c">>

(***************************************************************************)
(* C18.  Case-collision guard: whatever the entry directory held, once a   *)
(* row has been processed the directory holds exactly one file whose name  *)
(* equals the effective source file name up to case, that file has the     *)
(* effective name exactly and holds the source content of the row, and     *)
(* the guard removed no file whose name differs from the effective name    *)
(* by more than case.                                                      *)
(***************************************************************************)
\* the events of the row processed last: what follows the end of the row
\* before it
C18_row_log ==
  LET ends == {i \in 1..(Len(tree.log) - 1) : tree.log[i].op \in {"ok", "warn"}}
      from == IF ends = {} THEN 1
              ELSE (CHOOSE i \in ends : \A j \in ends : j <= i) + 1
  IN  SubSeq(tree.log, from, Len(tree.log))

C18_same_name(n, m) == lower(n) = lower(m)

C18_guarded(e) ==
  /\ {n \in names_in(tree, e.slug) : C18_same_name(n, e.eff)} = {e.eff}
  /\ tree.files[Path(e.slug, e.eff)] = C15_expected(e.spec.hello)
  /\ \A i \in 1..Len(C18_row_log) :
       C18_row_log[i].op = "remove" =>
         \A n \in C18_row_log[i].names : C18_same_name(n, e.eff)

RECURSIVE C19_insert(_)
C19_insert(toks) ==
  IF toks = <<>> THEN <<>>
  ELSE IF Head(toks) = S_cobc
       THEN <<S_cobc, S_free>> \o C19_insert(Tail(toks))
       ELSE <<Head(toks)>> \o C19_insert(Tail(toks))

C19_inserted(cmd) == join_blanks(C19_insert(shellish_split(cmd)))

C19_applies(row) ==
  /\ row.slug = S_cobol
  /\ \E i \in 0..Len(row.build_cmd) :
       occurs_at(lower(row.build_cmd), S_cobc, i)
  /\ \A i \in 0..Len(row.build_cmd) :
       ~occurs_at(lower(row.build_cmd), S_free, i)

C19_FreeInserted ==
  strOp = "fixed" =>
    /\ ~strOut.threw
    /\ strOut.spec.build_cmd =
         (IF C19_applies(str) THEN C19_inserted(str.build_cmd)
          ELSE str.build_cmd)
    /\ apply_fixups(strOut.spec) = strOut

(***************************************************************************)
(* C20.  Launcher ordering: every generated launcher first builds the      *)
(* image and runs it only after the build succeeded; when the build fails  *)
(* the run step is never executed and the launcher exits non-zero; the     *)
(* exit status is zero only if both build and run succeeded.  The platform *)
(* is pinned on both steps iff POLYGLOT_PLATFORM is set to a non-empty     *)
(* value, and on neither step otherwise.                                   *)
(***************************************************************************)
C20_ran(step, ok) ==
  \E i \in 1..Len(sh.calls) :
    sh.calls[i].step = step /\ (sh.calls[i].exit = 0) = ok

C20_pin ==
  IF world.set /\ world.value # <<>> THEN <<world.value>> ELSE <<>>

C20_launcher_ok ==
  /\ \A i \in 1..Len(sh.calls) :
       /\ sh.calls[i].step = "run" =>
            (i > 1 /\ sh.calls[i - 1].step = "build"
                   /\ sh.calls[i - 1].exit = 0)
       /\ sh.calls[i].platform = C20_pin
  /\ C20_ran("build", FALSE) =>
       (~C20_ran("run", TRUE) /\ ~C20_ran("run", FALSE)
        /\ (sh.done => sh.exit # 0))
  /\ sh.done =>
       /\ sh.calls # <<>> /\ sh.calls[1].step = "build"
       /\ sh.exit = 0 => (C20_ran("build", TRUE) /\ C20_ran("run", TRUE))

C20_plain_slug ==
  \A i \in 1..Len(world.slug) : world.slug[i] \notin {DQ, "$", BSL}

C20_WitnessBuildFailed ==
  /\ sh.done /\ sh.exit # 0
  /\ C20_plain_slug
  /\ ~world.set
  /\ Len(sh.calls) = 1
  /\ sh.calls[1].step = "build" /\ sh.calls[1].platform = <<>>
  /\ world.run = 0

(***************************************************************************)
(* C21.  Output confinement: every directory the generator creates and     *)
(* every file it writes or removes lies inside the languages root under    *)
(* the current directory, in the directory of the row being processed; no  *)
(* slug and no file field makes it create, overwrite or delete anything    *)
(* outside that root.                                                      *)
(***************************************************************************)
\* strictly below ./languages
C21_inside(loc) ==
  /\ ~loc.abs
  /\ loc.up = 0
  /\ Len(loc.comps) >= 2
  /\ loc.comps[1] = S_languages

C21_touches(ev) == ev.op \in {"mkdir", "write", "remove"}

C21_Confined ==
  \A i \in 1..Len(tree.log) : C21_touches(tree.log[i]) =>
    /\ C21_inside(entry_dir(tree.log[i].slug))
    /\ \A n \in tree.log[i].names :
         /\ C21_inside(file_in(tree.log[i].slug, n))
         /\ Len(file_in(tree.log[i].slug, n).comps)
              = Len(entry_dir(tree.log[i].slug).comps) + 1

====
